---- MODULE Spec2Model ----
(***************************************************************************)
(* Work distribution and solution routing of bosminer: the work engines    *)
(* (test_utils.rs), the engine broadcast channel EngineSender /            *)
(* EngineReceiver and the work::Solution value (work.rs), the              *)
(* SolutionRouter and Core::run (hub.rs), and the block_mining Problem     *)
(* (test_utils/block_mining.rs).                                           *)
(***************************************************************************)
EXTENDS Integers, Sequences, FiniteSets, TLC

(* ------------------------------ bounds -------------------------------- *)
\* number of entries of TEST_BLOCKS the engines iterate over
MaxBlocks == 2
\* engine instances that may be constructed (ids 1..MaxEngines)
MaxEngines == 3
\* values written into the watch channel after its initial value
MaxBroadcasts == 3
\* EngineReceiver handles (the original one and its clones)
MaxReceivers == 2
\* recorded get_engine() results per receiver
MaxReturns == 3
\* concurrent hardware workers sharing engines
MaxWorkers == 2
\* recorded next_work() calls per engine
MaxCalls == 4

\* clients that supply jobs and own a solution sink
MaxClients == 2
\* Solutions the work solvers push into the solution queue
MaxSolutions == 3
\* clones of Core::solution_sender handed to the work solvers
MaxSenders == 2

\* concurrent readers of one Solution
MaxReaders == 2
\* nodes on the stored path of an Assignment
MaxPath == 2
\* midstates an Assignment may be built for
MaxMidstates == 4

\* Core::build_backend calls
MaxBackends == 2
\* nodes (work hubs and work solvers) the backends create
MaxNodes == 3
\* replace_engine_generator calls per EngineSender
MaxReplacements == 2
MaxRuns == 2
MaxTargets == 2
MaxOps == 5
\* rolled version values one version-rolling engine offers
MaxRolls == 2

EngineIds == 1..MaxEngines
Workers == 1..MaxWorkers
ReceiverIds == 1..MaxReceivers
\* Core::engine_receiver, the receiver engine_channel() returns: Core only
\* clones it, one clone per backend
CoreReceiver == 1
\* the clones handed to the backends, which call get_engine()
Clones == ReceiverIds \ {CoreReceiver}
\* the engine the engine-level specification exercises
TestedEngines == {1}
\* EngineSender instances and watch channels of the channel specification
SenderIds == {1, 2}
ChanIds == {1, 2}
\* Core::new's engine_channel() makes sender 1, channel 1 and CoreReceiver; a
\* second engine_channel() call makes the sender, channel and receiver of this id
Second == 2
\* id of the engine::ExhaustedWork sentinel (all its instances are alike)
Sentinel == 0
AllEngineIds == {Sentinel} \cup EngineIds
\* the clients (origins of jobs) and the ids Solutions get in the order they
\* are pushed into the solution queue
ClientIds == 1..MaxClients
SolutionIds == 1..MaxSolutions
\* the readers of a Solution, its memoized fields, the nodes of a path
ReaderIds == 1..MaxReaders
Cells == {"hash", "job_target", "backend_target"}
PathOf(n) == [i \in 1..n |-> << "node", i >>]
Paths == {PathOf(n) : n \in 0..MaxPath}
\* the targets a job may report
Targets == {1, 2}
\* the backends built, the nodes they create, what T::create may answer
BackendIds == 1..MaxBackends
NodeIds == 1..MaxNodes
WorkSolverTypes == {"WorkHub", "WorkSolver"}
\* engine generators: the one EngineSender::create installs and two a job
\* solver may install, named after the engine they build from a job
Generators == {"default", "OneWorkEngine", "TestWorkEngine"}
\* threads that call swap_sender
Swappers == {1}
Racers == {1, 2}
\* SolutionKey: the hash of a test block (the block's index stands for it)
\* and a midstate index
SolutionKeys == [hash : 1..MaxBlocks, midstate_idx : 0..(MaxTargets - 1)]

(* ------------------------------ values -------------------------------- *)
\* Option<T>: None is the empty sequence, Some(x) the one-element sequence
None == <<>>
Some(x) == <<x>>
IsSome(o) == o /= None
Unwrap(o) == o[1]

\* impl From<&TestBlock> for work::Assignment: one midstate, empty path
AssignmentFromTestBlock(k) ==
    [path |-> <<>>,
     job |-> k,
     midstates |-> << [version |-> <<"version", k>>, state |-> <<"midstate", k>>] >>,
     ntime |-> <<"time", k>>]

\* work::LoopState<Assignment>
Exhausted == [tag |-> "Exhausted", val |-> None]
Break(x) == [tag |-> "Break", val |-> Some(x)]
Continue(x) == [tag |-> "Continue", val |-> Some(x)]

\* the () a call without a result returns
Unit == [tag |-> "Unit", val |-> None]

\* LoopState::map with the closure of TestWorkEngineInner::next_work,
\* `|block| block.expect("test block is 'None'").into()`
LoopState_map(ls) ==
    IF ls.tag = "Exhausted" THEN Exhausted
    ELSE [tag |-> ls.tag, val |-> Some(AssignmentFromTestBlock(Unwrap(ls.val)))]

(* --------------------------- engine objects --------------------------- *)
\* An engine slot: kind "none" (not constructed yet), "ExhaustedWork",
\* "One" (OneWorkEngine) or "Test" (TestWorkEngine).  Unused fields stay
\* at their neutral value.
NoEngine == [kind |-> "none", work |-> None, next_test_block |-> None,
             test_block_iter |-> 0, len |-> 0]

\* engine::ExhaustedWork, the sentinel that never has work
ExhaustedWork == [kind |-> "ExhaustedWork", work |-> None, next_test_block |-> None,
                  test_block_iter |-> 0, len |-> 0]

\* OneWorkEngine::new(work)
OneWorkEngine_new(work) ==
    [kind |-> "One", work |-> Some(work), next_test_block |-> None,
     test_block_iter |-> 0, len |-> 0]

\* variant of TestWorkEngine::new() that does not advance the iterator past
\* the entry it stores
TestWorkEngine_new_again(n) ==
    [kind |-> "Test", work |-> None,
     next_test_block |-> IF n >= 1 THEN Some(1) ELSE None,
     test_block_iter |-> 1,
     len |-> n]

\* TestWorkEngine::new() over a TEST_BLOCKS slice of n entries:
\* test_block_iter is the index the iterator yields next (n + 1: at its end);
\* the constructor already pulled the first entry into next_test_block.
TestWorkEngine_new(n) ==
    [kind |-> "Test", work |-> None,
     next_test_block |-> IF n >= 1 THEN Some(1) ELSE None,
     test_block_iter |-> IF n >= 1 THEN 2 ELSE 1,
     len |-> n]

\* variant of OneWorkEngineInner::terminate that leaves the work in place
OneWorkEngineInner_terminate_keep(inner) == inner

\* OneWorkEngineInner::terminate
OneWorkEngineInner_terminate(inner) ==
    IF IsSome(inner.work) THEN [inner EXCEPT !.work = None] ELSE inner

\* OneWorkEngineInner::is_exhausted
OneWorkEngineInner_is_exhausted(inner) == inner.work = None

\* variant of OneWorkEngineInner::next_work that clones the work instead of take()
OneWorkEngineInner_next_work_clone(inner) ==
    IF IsSome(inner.work)
    THEN << inner, Break(Unwrap(inner.work)) >>
    ELSE << inner, Exhausted >>

\* OneWorkEngineInner::next_work: the pair <<inner', result>>
OneWorkEngineInner_next_work(inner) ==
    IF IsSome(inner.work)
    THEN << [inner EXCEPT !.work = None], Break(Unwrap(inner.work)) >>
    ELSE << inner, Exhausted >>

\* TestWorkEngineInner::terminate
TestWorkEngineInner_terminate(inner) ==
    IF IsSome(inner.next_test_block) THEN [inner EXCEPT !.next_test_block = None] ELSE inner

\* TestWorkEngineInner::is_exhausted
TestWorkEngineInner_is_exhausted(inner) == inner.next_test_block = None

\* variant of TestWorkEngineInner::next_work whose Break leaves the stored
\* block in place instead of take()
TestWorkEngineInner_next_work_keep(inner) ==
    IF inner.next_test_block = None
    THEN << inner, Exhausted >>
    ELSE IF inner.test_block_iter > inner.len
         THEN << inner,
                 LoopState_map(Break(Unwrap(inner.next_test_block))) >>
         ELSE << [inner EXCEPT !.next_test_block = Some(inner.test_block_iter),
                               !.test_block_iter = inner.test_block_iter + 1],
                 LoopState_map(Continue(Unwrap(inner.next_test_block))) >>

\* TestWorkEngineInner::next_work: the pair <<inner', result>>
TestWorkEngineInner_next_work(inner) ==
    IF TestWorkEngineInner_is_exhausted(inner)
    THEN << inner, Exhausted >>
    ELSE IF inner.test_block_iter > inner.len
         \* iterator at its end: take() the stored block, Break
         THEN << [inner EXCEPT !.next_test_block = None],
                 LoopState_map(Break(Unwrap(inner.next_test_block))) >>
         \* replace() the stored block by the next one, Continue with the old
         ELSE << [inner EXCEPT !.next_test_block = Some(inner.test_block_iter),
                               !.test_block_iter = inner.test_block_iter + 1],
                 LoopState_map(Continue(Unwrap(inner.next_test_block))) >>

\* engine::VersionRolling::new(job, 1): one Assignment with one midstate per
\* rolled value of the job's version, starting from the rolled value 0, for
\* which the version and the midstate are the job's own; the rolled value is
\* kept in test_block_iter and the job in len
VersionRolling_new(k) ==
    [kind |-> "Rolling", work |-> None, next_test_block |-> None,
     test_block_iter |-> 0, len |-> k]

VersionRolling_is_exhausted(eng) == eng.test_block_iter >= MaxRolls

VersionRolling_terminate(eng) == [eng EXCEPT !.test_block_iter = MaxRolls]

\* the Assignment for one rolled value of job k
VersionRolling_work(k, rolled) ==
    IF rolled = 0 THEN AssignmentFromTestBlock(k)
    ELSE [AssignmentFromTestBlock(k) EXCEPT
             !.midstates = << [version |-> << "version", k, rolled >>,
                               state |-> << "midstate", k, rolled >>] >>]

VersionRolling_next_work(eng) ==
    IF eng.test_block_iter >= MaxRolls THEN << eng, Exhausted >>
    ELSE << [eng EXCEPT !.test_block_iter = @ + 1],
            IF eng.test_block_iter + 1 = MaxRolls
            THEN Break(VersionRolling_work(eng.len, eng.test_block_iter))
            ELSE Continue(VersionRolling_work(eng.len, eng.test_block_iter)) >>

\* work::Engine::terminate, dispatched on the engine's type
terminate(eng) ==
    CASE eng.kind = "One" -> OneWorkEngineInner_terminate(eng)
      [] eng.kind = "Test" -> TestWorkEngineInner_terminate(eng)
      [] eng.kind = "Rolling" -> VersionRolling_terminate(eng)
      [] OTHER -> eng

\* work::Engine::is_exhausted
is_exhausted(eng) ==
    CASE eng.kind = "One" -> OneWorkEngineInner_is_exhausted(eng)
      [] eng.kind = "Test" -> TestWorkEngineInner_is_exhausted(eng)
      [] eng.kind = "Rolling" -> VersionRolling_is_exhausted(eng)
      [] OTHER -> TRUE

\* work::Engine::next_work
next_work(eng) ==
    CASE eng.kind = "One" -> OneWorkEngineInner_next_work(eng)
      [] eng.kind = "Test" -> TestWorkEngineInner_next_work(eng)
      [] eng.kind = "Rolling" -> VersionRolling_next_work(eng)
      [] OTHER -> << eng, Exhausted >>

(* ------------------------------- state -------------------------------- *)
VARIABLES
    engines,      \* engine id -> engine object (the Arc'd instances)
    calls,        \* engine id -> sequence of [by, op, res]: the calls made on it
    senders,      \* sender id -> EngineSender (EngineSenderInner and its lock)
    watch,        \* channel id -> shared state of a tokio watch channel
    sent,         \* channel id -> sequence of the engine ids written into it
    receivers,    \* receiver id -> EngineReceiver and its get_engine() call
    core,         \* hub::Core: its lifetime, its solution_router slot, its run()
    router,       \* the SolutionRouter task and what it has done so far
    solution_queue, \* the mpsc::unbounded() queue of Solutions and its senders
    clients,      \* client id -> the client, its solution sink and the sink's consumer
    model_solution, \* the work::Solution instance the readers share
    job,          \* the job::Bitcoin behind it: what its methods answer now
    readers,      \* reader id -> its call in progress and the results it got
    problem,      \* the block_mining Problem and the Assignment made from it
    registry,     \* the backend::Registry and who holds an Arc of it
    backends,     \* backend id -> its Core::build_backend call and what it did
    lookup,       \* the latest registry lookup through the Core and its result
    replaced,     \* sender id -> the generators replace_engine_generator returned
    swaps,        \* thread id -> its EngineSender::swap_sender call
    map,          \* block_mining::Registry::map: SolutionKey -> SolutionState
    ops,          \* the calls made on the block_mining Registry, with results
    harness,      \* block_mining::run: its position and the problem it is at
    reschedule,   \* the queue of exhausted engines behind ExhaustedWorkHandler
    pipeline      \* test_solvers_connection: jobs sent, Solutions pushed and received

vars == << engines, calls, senders, watch, sent, receivers,
           core, router, solution_queue, clients,
           model_solution, job, readers, problem,
           registry, backends, lookup, replaced, swaps, map, ops,
           harness, reschedule, pipeline >>

engineVars == << engines, calls >>
chanVars == << senders, watch, sent, receivers >>
workVars == << engines, calls, senders, watch, sent, receivers >>
routerVars == << core, router, solution_queue, clients >>
miningVars == << map, ops, harness, reschedule, pipeline >>
solutionVars == << model_solution, job, readers, problem, miningVars >>
backendVars == << registry, backends, lookup >>
callVars == << replaced, swaps >>

\* what the actions of one part of the program leave alone
outsideWork == << routerVars, solutionVars, backendVars, callVars >>
outsideRouter == << workVars, solutionVars, backendVars, callVars >>
outsideSolution == << workVars, routerVars, backendVars, callVars, miningVars >>
outsideMining == << workVars, routerVars, backendVars, callVars,
                    model_solution, job, readers, problem, pipeline >>
outsideBackend == << workVars, routerVars, solutionVars, callVars >>

\* the engine object behind an engine id
Eng(e) == engines[e]

\* a receiver slot that has not been created (cloned) yet, or was dropped
NoReceiver(st) ==
    [state |-> st, chan |-> 0, ver |-> 0, pc |-> "idle", engine |-> Sentinel,
     startPos |-> 0, rets |-> <<>>, bornPos |-> 0]

\* engine slots before any engine has been constructed
InitEngines == [e \in AllEngineIds |-> IF e = Sentinel THEN ExhaustedWork ELSE NoEngine]

\* variant of EngineSender::create that installs no generator
EngineSender_create_bare(current_engine, sender) ==
    [state |-> "alive", engine_generator |-> None,
     current_engine |-> current_engine, sender |-> sender, pc |-> "idle"]

\* EngineSender::create(current_engine, sender): the default generator, which
\* builds ExhaustedWork engines, is installed; the lock is free
EngineSender_create(current_engine, sender) ==
    [state |-> "alive", engine_generator |-> Some("default"),
     current_engine |-> current_engine, sender |-> sender, pc |-> "idle"]

\* a sender slot no EngineSender has been constructed in
NoSender ==
    [state |-> "none", engine_generator |-> None,
     current_engine |-> Sentinel, sender |-> None, pc |-> "idle"]

\* engine_channel(): watch::channel(ExhaustedWork), EngineSender::create, EngineReceiver::new.
\* The receiver has not seen the initial version yet (ver 0 against version 1).
engine_channel(s, c, r) ==
    /\ senders = [x \in SenderIds |->
                    IF x = s THEN EngineSender_create(Sentinel, Some(c)) ELSE NoSender]
    /\ watch = [x \in ChanIds |-> [value |-> Sentinel, version |-> 1, closed |-> FALSE]]
    /\ sent = [x \in ChanIds |-> << Sentinel >>]
    /\ receivers = [x \in ReceiverIds |->
                    IF x = r THEN [NoReceiver("alive") EXCEPT !.chan = c, !.bornPos = 1]
                    ELSE NoReceiver("none")]

\* once_cell::sync::OnceCell::new(): nothing stored, no initializer running;
\* inits counts the runs of an initializing closure
OnceCell_new == [state |-> "incomplete", value |-> None, inits |-> 0]

\* no Solution constructed yet
NoSolution ==
    [state |-> "none", work |-> None, solution |-> None,
     hash |-> OnceCell_new, job_target |-> OnceCell_new, backend_target |-> OnceCell_new]

\* no job yet
NoJob == [block |-> 0, version |-> 0, target |-> 0, origin |-> "none"]

\* a reader between calls, with the set rs of the results [op, res] its calls
\* returned so far
NoCall(rs) == [pc |-> "idle", cell |-> "none", reads |-> rs]

\* no Problem yet
NoProblem == [state |-> "none", target_midstate |-> 0, midstate_count |-> 0, work |-> None]

\* the holder of the Arc<backend::Registry> the frontend made (the other
\* holders are the builders of the backends, named by backend id)
Frontend == 0

\* backend::Registry::new(), owned by the frontend, Core holding a Weak of it:
\* no root hub, no work hubs, no work solvers
Registry_new ==
    [holders |-> {Frontend}, root_hub |-> None, work_hubs |-> <<>>, work_solvers |-> <<>>]

\* a build_backend call that has not been made yet: kind is what T::create
\* answered, node the node built for it, children the nodes its initializer
\* registered, trace the steps of the call in the order they happened
NoBuild ==
    [pc |-> "idle", kind |-> None, node |-> 0, children |-> <<>>, trace |-> <<>>]

\* a thread that is not in swap_sender
NoSwap == [pc |-> "idle", self |-> 0, other |-> 0, before |-> <<>>]

\* Core::new(): mpsc::unbounded() for the Solutions, the SolutionRouter put
\* into the solution_router slot, not running yet; the clients are those the
\* client manager has registered
Core_new ==
    /\ core = [state |-> "alive", solution_router |-> Some("router"), run |-> "none",
               spawned |-> 0, aborted |-> FALSE]
    /\ router = [pc |-> "idle", solution |-> None, solution_sender |-> None,
                 received |-> <<>>, discarded |-> <<>>]
    /\ solution_queue = [items |-> <<>>, clones |-> 0, sent |-> 0]
    /\ clients = [c \in ClientIds |-> [alive |-> TRUE, sink_open |-> TRUE, sink |-> <<>>]]

Init ==
    /\ engines = InitEngines
    /\ calls = [e \in EngineIds |-> <<>>]
    /\ engine_channel(1, 1, CoreReceiver)
    /\ Core_new
    /\ model_solution = NoSolution
    /\ job = NoJob
    /\ readers = [rd \in ReaderIds |-> NoCall({})]
    /\ problem = NoProblem
    /\ registry = Registry_new
    /\ backends = [b \in BackendIds |-> NoBuild]
    /\ lookup = None
    /\ replaced = [s \in SenderIds |-> <<>>]
    /\ swaps = [t \in Racers |-> NoSwap]
    /\ map = [k \in SolutionKeys |-> None]
    /\ ops = <<>>
    /\ harness = [pc |-> "none", midstate_count |-> 0, next |-> 0]
    /\ reschedule = <<>>
    /\ pipeline = [jobs |-> <<>>, pushed |-> <<>>, queue |-> <<>>, received |-> <<>>]

(* --------------------------- engine actions --------------------------- *)
\* Arc::new(OneWorkEngine::new(block.into())) into the next free slot e
NewOneWorkEngine(e, k) ==
    /\ engines[e].kind = "none"
    /\ \A d \in EngineIds : d < e => engines[d].kind /= "none"
    /\ engines' = [engines EXCEPT ![e] = OneWorkEngine_new(AssignmentFromTestBlock(k))]
    /\ UNCHANGED << calls, chanVars, outsideWork >>

\* Arc::new(TestWorkEngine::new()) into the next free slot e
NewTestWorkEngine(e, n) ==
    /\ engines[e].kind = "none"
    /\ \A d \in EngineIds : d < e => engines[d].kind /= "none"
    /\ engines' = [engines EXCEPT ![e] = TestWorkEngine_new(n)]
    /\ UNCHANGED << calls, chanVars, outsideWork >>

\* worker w calls engine.next_work() (atomic under the engine's mutex)
CallNextWork(w, e) ==
    /\ engines[e].kind /= "none"
    /\ Len(calls[e]) < MaxCalls
    /\ LET r == next_work(engines[e]) IN
         /\ engines' = [engines EXCEPT ![e] = r[1]]
         /\ calls' = [calls EXCEPT ![e] = Append(@, [by |-> w, op |-> "next_work", res |-> r[2]])]
    /\ UNCHANGED << chanVars, outsideWork >>

\* worker w calls engine.terminate() (atomic under the engine's mutex)
CallTerminate(w, e) ==
    /\ engines[e].kind /= "none"
    /\ Len(calls[e]) < MaxCalls
    /\ engines' = [engines EXCEPT ![e] = terminate(@)]
    /\ calls' = [calls EXCEPT ![e] = Append(@, [by |-> w, op |-> "terminate", res |-> Unit])]
    /\ UNCHANGED << chanVars, outsideWork >>

\* the bool a call of is_exhausted() returns
Bool(b) == [tag |-> "Bool", val |-> Some(b)]

\* variant of the is_exhausted() call that take()s what the engine holds
CallIsExhausted_take(w, e) ==
    /\ engines[e].kind /= "none"
    /\ Len(calls[e]) < MaxCalls
    /\ engines' = [engines EXCEPT ![e] = terminate(@)]
    /\ calls' = [calls EXCEPT ![e] =
                    Append(@, [by |-> w, op |-> "is_exhausted",
                               res |-> Bool(is_exhausted(engines[e]))])]
    /\ UNCHANGED << chanVars, outsideWork >>

\* worker w calls engine.is_exhausted(): `&self`, reads under the engine's mutex
CallIsExhausted(w, e) ==
    /\ engines[e].kind /= "none"
    /\ Len(calls[e]) < MaxCalls
    /\ calls' = [calls EXCEPT ![e] =
                    Append(@, [by |-> w, op |-> "is_exhausted",
                               res |-> Bool(is_exhausted(engines[e]))])]
    /\ UNCHANGED << engines, chanVars, outsideWork >>

\* engine-level specification: one engine shared by the workers
NextEngine ==
    \/ \E e \in TestedEngines, k \in 1..MaxBlocks : NewOneWorkEngine(e, k)
    \/ \E e \in TestedEngines, n \in 1..MaxBlocks : NewTestWorkEngine(e, n)
    \/ \E w \in Workers, e \in TestedEngines : CallNextWork(w, e)
    \/ \E w \in Workers, e \in TestedEngines : CallTerminate(w, e)

SpecEngine == Init /\ [][NextEngine]_vars

\* the engine-level specification with is_exhausted() calls among the others
NextPeek ==
    \/ NextEngine
    \/ \E w \in Workers, e \in TestedEngines : CallIsExhausted(w, e)

SpecPeek == Init /\ [][NextPeek]_vars

(* --------------------------- EngineSender ----------------------------- *)
\* receivers of channel c that are alive (they keep its shared state alive)
AliveOn(c) == {r \in ReceiverIds : receivers[r].state = "alive" /\ receivers[r].chan = c}

\* variant of re_broadcast that leaves a value that still has work in the channel
re_broadcast_keep(s, inner) ==
    IF inner.sender = None \/ ~is_exhausted(Eng(watch[Unwrap(inner.sender)].value))
    THEN /\ senders' = [senders EXCEPT ![s] = inner]
         /\ UNCHANGED << watch, sent >>
    ELSE LET c == Unwrap(inner.sender) IN
         /\ watch' = [watch EXCEPT ![c].value = inner.current_engine]
         /\ sent' = [sent EXCEPT ![c] = Append(@, inner.current_engine)]
         /\ senders' = [senders EXCEPT ![s] = [inner EXCEPT !.pc = "notify"]]

\* EngineSenderInner::re_broadcast on the updated inner state: nothing without
\* an endpoint; watch::Sender::broadcast fails once every receiver is gone and
\* the expect() then panics with the sender's lock held (the lock is poisoned);
\* otherwise the value is replaced, the version is bumped by WatchNotify.
re_broadcast(s, inner) ==
    IF inner.sender = None
    THEN /\ senders' = [senders EXCEPT ![s] = inner]
         /\ UNCHANGED << watch, sent >>
    ELSE LET c == Unwrap(inner.sender) IN
         IF AliveOn(c) = {}
         THEN /\ senders' = [senders EXCEPT ![s] = [inner EXCEPT !.state = "poisoned"]]
              /\ UNCHANGED << watch, sent >>
         ELSE /\ watch' = [watch EXCEPT ![c].value = inner.current_engine]
              /\ sent' = [sent EXCEPT ![c] = Append(@, inner.current_engine)]
              /\ senders' = [senders EXCEPT ![s] = [inner EXCEPT !.pc = "notify"]]

\* the sender's lock is free and another value may still be recorded
CanBroadcast(s) ==
    /\ senders[s].state = "alive"
    /\ senders[s].pc = "idle"
    /\ \A c \in ChanIds : Len(sent[c]) <= MaxBroadcasts

\* variant of broadcast_engine that returns early on a Sender without an
\* endpoint: the engine is not recorded
broadcast_engine_unrecorded(s, e, eng) ==
    /\ CanBroadcast(s)
    /\ engines[e].kind = "none"
    /\ \A d \in EngineIds : d < e => engines[d].kind /= "none"
    /\ engines' = [engines EXCEPT ![e] = eng]
    /\ IF senders[s].sender = None
       THEN UNCHANGED << senders, watch, sent >>
       ELSE re_broadcast(s, [senders[s] EXCEPT !.current_engine = e])
    /\ UNCHANGED << calls, receivers, outsideWork >>

\* EngineSender::broadcast_engine(Arc::new(engine)) of a newly constructed
\* engine, which takes the next free slot e; up to the replacement of the value
broadcast_engine(s, e, eng) ==
    /\ CanBroadcast(s)
    /\ engines[e].kind = "none"
    /\ \A d \in EngineIds : d < e => engines[d].kind /= "none"
    /\ engines' = [engines EXCEPT ![e] = eng]
    /\ re_broadcast(s, [senders[s] EXCEPT !.current_engine = e])
    /\ UNCHANGED << calls, receivers, outsideWork >>

\* variant of invalidate that puts the sentinel into the channel and keeps
\* the recorded current engine
invalidate_value_only(s) ==
    /\ CanBroadcast(s)
    /\ IsSome(senders[s].sender)
    /\ AliveOn(Unwrap(senders[s].sender)) /= {}
    /\ watch' = [watch EXCEPT ![Unwrap(senders[s].sender)].value = Sentinel]
    /\ sent' = [sent EXCEPT ![Unwrap(senders[s].sender)] = Append(@, Sentinel)]
    /\ senders' = [senders EXCEPT ![s].pc = "notify"]
    /\ UNCHANGED << engineVars, receivers, outsideWork >>

\* EngineSender::invalidate(), up to the replacement of the value
invalidate(s) ==
    /\ CanBroadcast(s)
    /\ re_broadcast(s, [senders[s] EXCEPT !.current_engine = Sentinel])
    /\ UNCHANGED << engineVars, receivers, outsideWork >>

\* variant of the second half of broadcast that wakes nobody: the version stays
WatchNotify_lost(s) ==
    /\ senders[s].pc = "notify"
    /\ senders' = [senders EXCEPT ![s].pc = "idle"]
    /\ UNCHANGED << engineVars, watch, sent, receivers, outsideWork >>

\* second half of watch::Sender::broadcast: bump the version, wake the
\* receivers; the EngineSender's lock is released afterwards
WatchNotify(s) ==
    /\ senders[s].pc = "notify"
    /\ LET c == Unwrap(senders[s].sender) IN
         watch' = [watch EXCEPT ![c].version = @ + 1]
    /\ senders' = [senders EXCEPT ![s].pc = "idle"]
    /\ UNCHANGED << engineVars, sent, receivers, outsideWork >>

\* variant of the drop of the EngineSender that takes the value out of the
\* channel it closes
DropSender_clear(s) ==
    /\ senders[s].state \in {"alive", "poisoned"}
    /\ senders[s].pc = "idle"
    /\ senders' = [senders EXCEPT ![s].state = "dropped"]
    /\ watch' = [c \in ChanIds |->
                   IF senders[s].sender = Some(c)
                   THEN [watch[c] EXCEPT !.closed = TRUE, !.value = Sentinel]
                   ELSE watch[c]]
    /\ UNCHANGED << engineVars, sent, receivers, outsideWork >>

\* the EngineSender is dropped: its watch::Sender closes the channel
DropSender(s) ==
    /\ senders[s].state \in {"alive", "poisoned"}
    /\ senders[s].pc = "idle"
    /\ senders' = [senders EXCEPT ![s].state = "dropped"]
    /\ watch' = [c \in ChanIds |->
                   IF senders[s].sender = Some(c) THEN [watch[c] EXCEPT !.closed = TRUE]
                   ELSE watch[c]]
    /\ UNCHANGED << engineVars, sent, receivers, outsideWork >>

(* -------------------------- EngineReceiver ---------------------------- *)
\* the receiver after get_engine() returned res (Some(engine id) or None):
\* the result is recorded in rets, the call's locals are gone
Returned(rcv, res) ==
    [rcv EXCEPT !.rets = Append(@, res), !.pc = "idle",
                !.engine = Sentinel, !.startPos = 0]

\* the result of receiver r's latest get_engine() call (None before any)
LastRet(r) ==
    IF receivers[r].rets = <<>> THEN None ELSE receivers[r].rets[Len(receivers[r].rets)]

\* variant of the borrow that reads the value before the current one
GetEngineBorrow_stale(r) ==
    /\ receivers[r].state = "alive"
    /\ receivers[r].pc = "idle"
    /\ Len(receivers[r].rets) < MaxReturns
    /\ LET c == receivers[r].chan
           p == IF Len(sent[c]) > 1 THEN Len(sent[c]) - 1 ELSE 1 IN
         receivers' = [receivers EXCEPT ![r].engine = sent[c][p],
                                        ![r].startPos = Len(sent[c]),
                                        ![r].pc = "check"]
    /\ UNCHANGED << engineVars, senders, watch, sent, outsideWork >>

\* get_engine(): `let mut engine = self.watch_receiver.borrow().clone()`
GetEngineBorrow(r) ==
    /\ receivers[r].state = "alive"
    /\ receivers[r].pc = "idle"
    /\ Len(receivers[r].rets) < MaxReturns
    /\ LET c == receivers[r].chan IN
         receivers' = [receivers EXCEPT ![r].engine = watch[c].value,
                                        ![r].startPos = Len(sent[c]),
                                        ![r].pc = "check"]
    /\ UNCHANGED << engineVars, senders, watch, sent, outsideWork >>

\* variant of the check that probes the engine with next_work()
GetEngineCheck_consume(r) ==
    /\ receivers[r].state = "alive"
    /\ receivers[r].pc = "check"
    /\ LET res == next_work(Eng(receivers[r].engine)) IN
         /\ engines' = [engines EXCEPT ![receivers[r].engine] = res[1]]
         /\ IF res[2].tag /= "Exhausted"
            THEN receivers' = [receivers EXCEPT ![r] = Returned(@, Some(@.engine))]
            ELSE receivers' = [receivers EXCEPT ![r].pc = "next"]
    /\ UNCHANGED << calls, senders, watch, sent, outsideWork >>

\* variant of the check that returns the engine whether or not it has work
GetEngineCheck_any(r) ==
    /\ receivers[r].state = "alive"
    /\ receivers[r].pc = "check"
    /\ receivers' = [receivers EXCEPT ![r] = Returned(@, Some(@.engine))]
    /\ UNCHANGED << engineVars, senders, watch, sent, outsideWork >>

\* get_engine(): `if !engine.is_exhausted() { return Some(engine) }`
GetEngineCheck(r) ==
    /\ receivers[r].state = "alive"
    /\ receivers[r].pc = "check"
    /\ IF ~is_exhausted(Eng(receivers[r].engine))
       THEN receivers' = [receivers EXCEPT ![r] = Returned(@, Some(@.engine))]
       ELSE receivers' = [receivers EXCEPT ![r].pc = "next"]
    /\ UNCHANGED << engineVars, senders, watch, sent, outsideWork >>

\* variant of next() that replays every version in turn, like a queue
GetEngineNext_backlog(r) ==
    /\ receivers[r].state = "alive"
    /\ receivers[r].pc = "next"
    /\ LET c == receivers[r].chan IN
         /\ watch[c].version /= receivers[r].ver \/ watch[c].closed
         /\ IF watch[c].version /= receivers[r].ver
            THEN receivers' = [receivers EXCEPT ![r].ver = @ + 1,
                                                ![r].engine = sent[c][receivers[r].ver + 1],
                                                ![r].pc = "check"]
            ELSE receivers' = [receivers EXCEPT ![r] = Returned(@, None)]
    /\ UNCHANGED << engineVars, senders, watch, sent, outsideWork >>

\* get_engine(): `match self.watch_receiver.next().await`: a version the
\* receiver has not seen yields the current value; a closed channel yields
\* None (end of stream); otherwise the call stays suspended
GetEngineNext(r) ==
    /\ receivers[r].state = "alive"
    /\ receivers[r].pc = "next"
    /\ LET c == receivers[r].chan IN
         /\ watch[c].version /= receivers[r].ver \/ watch[c].closed
         /\ IF watch[c].version /= receivers[r].ver
            THEN receivers' = [receivers EXCEPT ![r].ver = watch[c].version,
                                                ![r].engine = watch[c].value,
                                                ![r].pc = "check"]
            ELSE receivers' = [receivers EXCEPT ![r] = Returned(@, None)]
    /\ UNCHANGED << engineVars, senders, watch, sent, outsideWork >>

\* #[derive(Clone)] of EngineReceiver: a new handle on the same channel,
\* starting from the version the original has seen
CloneReceiver(r, n) ==
    /\ receivers[r].state = "alive"
    /\ receivers[r].pc = "idle"
    /\ receivers[n].state = "none"
    /\ \A d \in ReceiverIds : d < n => receivers[d].state /= "none"
    /\ receivers' = [receivers EXCEPT ![n] =
                        [NoReceiver("alive") EXCEPT !.chan = receivers[r].chan,
                                                    !.ver = receivers[r].ver,
                                                    !.bornPos = Len(sent[receivers[r].chan])]]
    /\ UNCHANGED << engineVars, senders, watch, sent, outsideWork >>

\* the receiver (or its suspended get_engine() future) is dropped
DropReceiver(r) ==
    /\ receivers[r].state = "alive"
    /\ receivers[r].pc \in {"idle", "next"}
    /\ receivers' = [receivers EXCEPT ![r] = NoReceiver("dropped")]
    /\ UNCHANGED << engineVars, senders, watch, sent, outsideWork >>

\* the holder of receiver r pulls work from the engine get_engine() returned
WorkerNextWork(r) ==
    /\ receivers[r].state = "alive"
    /\ receivers[r].pc = "idle"
    /\ IsSome(LastRet(r))
    /\ engines' = [engines EXCEPT ![Unwrap(LastRet(r))] = next_work(@)[1]]
    /\ UNCHANGED << calls, chanVars, outsideWork >>

\* a superseded job's engine is terminated by its owner
TerminateEngine(e) ==
    /\ engines[e].kind /= "none"
    /\ engines' = [engines EXCEPT ![e] = terminate(@)]
    /\ UNCHANGED << calls, chanVars, outsideWork >>

\* the engines the channel specification broadcasts: a OneWorkEngine and a
\* TestWorkEngine over all of TEST_BLOCKS
NewEngines == {OneWorkEngine_new(AssignmentFromTestBlock(1)), TestWorkEngine_new(MaxBlocks)}

Next ==
    \/ \E e \in EngineIds : TerminateEngine(e)
    \/ \E s \in SenderIds, e \in EngineIds, eng \in NewEngines : broadcast_engine(s, e, eng)
    \/ \E s \in SenderIds : invalidate(s)
    \/ \E s \in SenderIds : WatchNotify(s)
    \/ \E s \in SenderIds : DropSender(s)
    \/ \E r \in Clones : GetEngineBorrow(r)
    \/ \E r \in Clones : GetEngineCheck(r)
    \/ \E r \in Clones : GetEngineNext(r)
    \/ \E n \in Clones : CloneReceiver(CoreReceiver, n)
    \/ \E r \in ReceiverIds : DropReceiver(r)
    \/ \E r \in Clones : WorkerNextWork(r)

Spec == Init /\ [][Next]_vars

\* get_engine() is suspended only at next(), and only the runtime's wake-up
\* and the completion of a started broadcast are assumed
SpecLive ==
    /\ Init
    /\ [][Next]_vars
    /\ \A r \in Clones : WF_vars(GetEngineCheck(r)) /\ WF_vars(GetEngineNext(r))
    /\ \A s \in SenderIds : WF_vars(WatchNotify(s))

(* ------------------------------ hub::Core ----------------------------- *)
\* a Solution in flight: its id (its place in the order of the pushes) and
\* the client its job came from
Solution(n, c) == [id |-> n, origin |-> c]

\* variant of the count in which the Core keeps no handle of its own
SolutionSenders_clones == solution_queue.clones

\* the UnboundedSender handles alive: Core::solution_sender and its clones
SolutionSenders == (IF core.state = "alive" THEN 1 ELSE 0) + solution_queue.clones

\* the UnboundedReceiver exists: the router holds it, spawned or not
ReceiverExists == router.pc \in {"idle", "recv", "resolve", "send"}

\* variant of the first step of run() that leaves the router in its slot
Core_run_take_keep ==
    /\ core.state = "alive"
    /\ core.run \in {"none", "await", "finished"}
    /\ core.spawned < MaxRuns
    /\ IsSome(core.solution_router)
    /\ core' = [core EXCEPT !.run = "spawn"]
    /\ UNCHANGED << router, solution_queue, clients, outsideRouter >>

\* Core::run(): `self.solution_router.lock().await.take().expect("missing
\* solution router")`: the first call empties the slot and goes on to the
\* spawn; a later call on the same Core finds None and the expect() panics
Core_run_take ==
    /\ core.state = "alive"
    /\ IF IsSome(core.solution_router)
       THEN core' = [core EXCEPT !.solution_router = None, !.run = "spawn"]
       ELSE /\ ~core.aborted
            /\ core' = [core EXCEPT !.aborted = TRUE]
    /\ UNCHANGED << router, solution_queue, clients, outsideRouter >>

\* Core::run(): `tokio::spawn(solution_router.run())`, the handle is dropped;
\* run() then awaits the job executor
Core_run_spawn ==
    /\ core.run = "spawn"
    /\ core' = [core EXCEPT !.run = "await", !.spawned = @ + 1]
    /\ router' = [router EXCEPT !.pc = "recv"]
    /\ UNCHANGED << solution_queue, clients, outsideRouter >>

\* Core::run(): `self.job_executor.clone().run().await` returns, and so does run()
Core_run_return ==
    /\ core.run = "await"
    /\ core' = [core EXCEPT !.run = "finished"]
    /\ UNCHANGED << router, solution_queue, clients, outsideRouter >>

\* variant of the drop that ignores the Arc<Core> a running run() holds
DropCore_anytime ==
    /\ core.state = "alive"
    /\ core' = [core EXCEPT !.state = "dropped", !.solution_router = None]
    /\ router' = IF IsSome(core.solution_router) THEN [router EXCEPT !.pc = "dropped"]
                 ELSE router
    /\ UNCHANGED << solution_queue, clients, outsideRouter >>

\* the last Arc<Core> is dropped, which run() (`self: Arc<Self>`) prevents
\* while it executes: solution_sender goes, and with it a router never taken
DropCore ==
    /\ core.state = "alive"
    /\ core.run \in {"none", "finished"}
    /\ core' = [core EXCEPT !.state = "dropped", !.solution_router = None]
    /\ router' = IF IsSome(core.solution_router) THEN [router EXCEPT !.pc = "dropped"]
                 ELSE router
    /\ UNCHANGED << solution_queue, clients, outsideRouter >>

\* build_backend(): `self.solution_sender.clone()` for the backend's solvers
CloneSolutionSender ==
    /\ core.state = "alive"
    /\ solution_queue.clones < MaxSenders
    /\ solution_queue' = [solution_queue EXCEPT !.clones = @ + 1]
    /\ UNCHANGED << core, router, clients, outsideRouter >>

\* a work solver goes away and drops its clone of the sender
DropSolutionSender ==
    /\ solution_queue.clones > 0
    /\ solution_queue' = [solution_queue EXCEPT !.clones = @ - 1]
    /\ UNCHANGED << core, router, clients, outsideRouter >>

\* a work solver pushes a Solution of a job of client c through its clone
SolverSend(c) ==
    /\ solution_queue.clones > 0
    /\ ReceiverExists
    /\ solution_queue.sent < MaxSolutions
    /\ solution_queue' = [solution_queue EXCEPT
                             !.items = Append(@, Solution(solution_queue.sent + 1, c)),
                             !.sent = @ + 1]
    /\ UNCHANGED << core, router, clients, outsideRouter >>

\* client c disconnects: the Weak origin of its jobs no longer upgrades
RemoveClient(c) ==
    /\ clients[c].alive
    /\ clients' = [clients EXCEPT ![c].alive = FALSE]
    /\ UNCHANGED << core, router, solution_queue, outsideRouter >>

\* the consumer of a removed client's solution sink is dropped
CloseSink(c) ==
    /\ ~clients[c].alive
    /\ clients[c].sink_open
    /\ clients' = [clients EXCEPT ![c].sink_open = FALSE]
    /\ UNCHANGED << core, router, solution_queue, outsideRouter >>

(* --------------------------- SolutionRouter --------------------------- *)
\* the router after one loop iteration: back at the receive, nothing in hand
NextIteration(rt) == [rt EXCEPT !.pc = "recv", !.solution = None, !.solution_sender = None]

\* variant of the receive that takes the Solution pushed last
SolutionRouter_next_last ==
    /\ router.pc = "recv"
    /\ solution_queue.items /= <<>> \/ SolutionSenders = 0
    /\ IF solution_queue.items /= <<>>
       THEN LET n == Len(solution_queue.items) IN
            /\ router' = [router EXCEPT !.pc = "resolve",
                                        !.solution = Some(solution_queue.items[n]),
                                        !.received = Append(@, solution_queue.items[n])]
            /\ solution_queue' = [solution_queue EXCEPT !.items = SubSeq(@, 1, n - 1)]
       ELSE /\ router' = [router EXCEPT !.pc = "done"]
            /\ UNCHANGED solution_queue
    /\ UNCHANGED << core, clients, outsideRouter >>

\* variant of the receive that ends the stream as soon as the queue is empty
SolutionRouter_next_eager ==
    /\ router.pc = "recv"
    /\ IF solution_queue.items /= <<>>
       THEN /\ router' = [router EXCEPT !.pc = "resolve",
                                        !.solution = Some(Head(solution_queue.items)),
                                        !.received = Append(@, Head(solution_queue.items))]
            /\ solution_queue' = [solution_queue EXCEPT !.items = Tail(@)]
       ELSE /\ router' = [router EXCEPT !.pc = "done"]
            /\ UNCHANGED solution_queue
    /\ UNCHANGED << core, clients, outsideRouter >>

\* SolutionRouter::run: `while let Some(solution) = self.solution_receiver.next().await`:
\* the oldest Solution if there is one; the end of the stream (the loop and the
\* task end, the receiver is dropped) once the queue is empty and every sender
\* is gone; suspended otherwise
SolutionRouter_next ==
    /\ router.pc = "recv"
    /\ solution_queue.items /= <<>> \/ SolutionSenders = 0
    /\ IF solution_queue.items /= <<>>
       THEN /\ router' = [router EXCEPT !.pc = "resolve",
                                        !.solution = Some(Head(solution_queue.items)),
                                        !.received = Append(@, Head(solution_queue.items))]
            /\ solution_queue' = [solution_queue EXCEPT !.items = Tail(@)]
       ELSE /\ router' = [router EXCEPT !.pc = "done"]
            /\ UNCHANGED solution_queue
    /\ UNCHANGED << core, clients, outsideRouter >>

\* JobExecutor::get_solution_sender(&solution): the sink of the Solution's
\* origin client if that client still exists
get_solution_sender(solution) ==
    IF clients[solution.origin].alive THEN Some(solution.origin) ELSE None

\* variant of the resolution that puts the Solution of a vanished client back
\* into the queue
SolutionRouter_get_solution_sender_requeue ==
    /\ router.pc = "resolve"
    /\ LET solution == Unwrap(router.solution)
           solution_sender == get_solution_sender(solution) IN
         IF IsSome(solution_sender)
         THEN /\ router' = [router EXCEPT !.pc = "send", !.solution_sender = solution_sender]
              /\ UNCHANGED solution_queue
         ELSE /\ router' = NextIteration(router)
              /\ solution_queue' = [solution_queue EXCEPT !.items = Append(@, solution)]
    /\ UNCHANGED << core, clients, outsideRouter >>

\* variant of the resolution that leaves the loop after discarding a Solution
SolutionRouter_get_solution_sender_stop ==
    /\ router.pc = "resolve"
    /\ LET solution == Unwrap(router.solution)
           solution_sender == get_solution_sender(solution) IN
         IF IsSome(solution_sender)
         THEN router' = [router EXCEPT !.pc = "send", !.solution_sender = solution_sender]
         ELSE router' = [router EXCEPT !.pc = "stopped",
                                       !.discarded = Append(@, solution)]
    /\ UNCHANGED << core, solution_queue, clients, outsideRouter >>

\* SolutionRouter::run: `if let Some(solution_sender) =
\* self.job_executor.get_solution_sender(&solution).await`; in the else branch
\* the Solution is discarded with a warning and the loop goes on
SolutionRouter_get_solution_sender ==
    /\ router.pc = "resolve"
    /\ LET solution == Unwrap(router.solution)
           solution_sender == get_solution_sender(solution) IN
         IF IsSome(solution_sender)
         THEN router' = [router EXCEPT !.pc = "send", !.solution_sender = solution_sender]
         ELSE router' = [NextIteration(router) EXCEPT !.discarded = Append(@, solution)]
    /\ UNCHANGED << core, solution_queue, clients, outsideRouter >>

\* variant of the delivery that discards the Solution when the sink refuses it
SolutionRouter_unbounded_send_skip ==
    /\ router.pc = "send"
    /\ LET solution == Unwrap(router.solution)
           c == Unwrap(router.solution_sender) IN
         IF clients[c].sink_open
         THEN /\ clients' = [clients EXCEPT ![c].sink = Append(@, solution)]
              /\ router' = NextIteration(router)
         ELSE /\ router' = [NextIteration(router) EXCEPT !.discarded = Append(@, solution)]
              /\ UNCHANGED clients
    /\ UNCHANGED << core, solution_queue, outsideRouter >>

\* SolutionRouter::run: `solution_sender.unbounded_send(solution)
\* .expect("solution queue send failed")`: the send fails when the sink's
\* consumer is gone, and the expect() then panics: the task is over
SolutionRouter_unbounded_send ==
    /\ router.pc = "send"
    /\ LET solution == Unwrap(router.solution)
           c == Unwrap(router.solution_sender) IN
         IF clients[c].sink_open
         THEN /\ clients' = [clients EXCEPT ![c].sink = Append(@, solution)]
              /\ router' = NextIteration(router)
         ELSE /\ router' = [router EXCEPT !.pc = "panicked"]
              /\ UNCHANGED clients
    /\ UNCHANGED << core, solution_queue, outsideRouter >>

NextRouter ==
    \/ Core_run_take
    \/ Core_run_spawn
    \/ Core_run_return
    \/ DropCore
    \/ CloneSolutionSender
    \/ DropSolutionSender
    \/ \E c \in ClientIds : SolverSend(c)
    \/ \E c \in ClientIds : RemoveClient(c)
    \/ \E c \in ClientIds : CloseSink(c)
    \/ SolutionRouter_next
    \/ SolutionRouter_get_solution_sender
    \/ SolutionRouter_unbounded_send

SpecRouter == Init /\ [][NextRouter]_vars

\* the runtime keeps polling the spawned router task while it can proceed
SpecRouterLive ==
    /\ Init
    /\ [][NextRouter]_vars
    /\ WF_vars(SolutionRouter_next)
    /\ WF_vars(SolutionRouter_get_solution_sender)
    /\ WF_vars(SolutionRouter_unbounded_send)

(* --------------------------- work::Solution --------------------------- *)
\* TestBlock::version() of the k-th test block
TestBlock_version(k) == IF k = 1 THEN 1 ELSE 536870912 + (k - 2)

\* TestSolution::new(test_block): the hardware's answer to the test block
TestSolution_new(k) ==
    [nonce |-> << "nonce", k >>, midstate_idx |-> 0, target |-> << "target", "default" >>]

\* Solution::new(work, solution, timestamp): the three cells start empty
Solution_new(work, backend_solution) ==
    [state |-> "alive", work |-> Some(work), solution |-> Some(backend_solution),
     hash |-> OnceCell_new, job_target |-> OnceCell_new, backend_target |-> OnceCell_new]

\* Solution::version(): the version of the midstate the solution is for
Solution_version(sol) ==
    Unwrap(sol.work).midstates[Unwrap(sol.solution).midstate_idx + 1].version

\* Solution::get_block_header()
Solution_get_block_header(sol) ==
    [version |-> Solution_version(sol),
     previous_hash |-> << "previous_hash", Unwrap(sol.work).job >>,
     merkle_root |-> << "merkle_root", Unwrap(sol.work).job >>,
     time |-> Unwrap(sol.work).ntime,
     bits |-> << "bits", Unwrap(sol.work).job >>,
     nonce |-> Unwrap(sol.solution).nonce]

\* BlockHeader::hash(): the double hash, a function of the header alone
BlockHeader_hash(header) == << "dhash", header >>

\* the closures Solution::hash(), job_target() and backend_target() hand to
\* get_or_init: what each computes when it runs now
Initializer(cell, sol) ==
    CASE cell = "hash" -> BlockHeader_hash(Solution_get_block_header(sol))
      [] cell = "job_target" -> << "target", job.target >>
      [] cell = "backend_target" -> Unwrap(sol.solution).target

\* variant of Solution::path() that insists on the origin
Solution_path_expect(sol) ==
    IF job.origin = "alive"
    THEN << << "origin", Unwrap(sol.work).job >> >> \o Unwrap(sol.work).path
    ELSE << "panic" >>

\* Solution::path(): the origin, if its Weak still upgrades, then the stored path
Solution_path(sol) ==
    IF job.origin = "alive"
    THEN << << "origin", Unwrap(sol.work).job >> >> \o Unwrap(sol.work).path
    ELSE Unwrap(sol.work).path

\* a Solution is made for test block k whose Assignment came down path p,
\* while the job reports target t
NewSolution(k, p, t) ==
    /\ model_solution.state = "none"
    /\ job' = [block |-> k, version |-> TestBlock_version(k), target |-> t, origin |-> "alive"]
    /\ model_solution' = Solution_new([AssignmentFromTestBlock(k) EXCEPT !.path = p],
                                      TestSolution_new(k))
    /\ UNCHANGED << readers, problem, outsideSolution >>

\* the job's target changes (the client adjusts the difficulty)
ChangeJobTarget(t) ==
    /\ job.origin /= "none"
    /\ job.target /= t
    /\ job' = [job EXCEPT !.target = t]
    /\ UNCHANGED << model_solution, readers, problem, outsideSolution >>

\* the client the job came from is dropped: job.origin() no longer upgrades
DropOrigin ==
    /\ job.origin = "alive"
    /\ job' = [job EXCEPT !.origin = "dropped"]
    /\ UNCHANGED << model_solution, readers, problem, outsideSolution >>

\* the reader after a call that returned res
ReturnedRead(rdr, op, res) == NoCall(rdr.reads \cup {[op |-> op, res |-> res]})

\* a reader may start another call on the Solution
CanRead(rd) ==
    /\ model_solution.state = "alive"
    /\ readers[rd].pc = "idle"

\* variant of get_or_init without the cell's guard: whoever finds the cell
\* empty runs its closure
OnceCell_get_or_init_race(rd, cell) ==
    /\ CanRead(rd)
    /\ IF model_solution[cell].state = "complete"
       THEN readers' = [readers EXCEPT ![rd] =
                           ReturnedRead(@, cell, Unwrap(model_solution[cell].value))]
       ELSE readers' = [readers EXCEPT ![rd].pc = "init", ![rd].cell = cell]
    /\ UNCHANGED << model_solution, job, problem, outsideSolution >>

\* Solution::hash() / job_target() / backend_target(): `self.<cell>.get_or_init(..)`
\* of once_cell::sync::OnceCell: the stored value if there is one; else the
\* caller runs the closure unless another caller is running one, which it
\* then waits for
OnceCell_get_or_init(rd, cell) ==
    /\ CanRead(rd)
    /\ CASE model_solution[cell].state = "complete" ->
              /\ readers' = [readers EXCEPT ![rd] =
                                ReturnedRead(@, cell, Unwrap(model_solution[cell].value))]
              /\ UNCHANGED model_solution
         [] model_solution[cell].state = "incomplete" ->
              /\ readers' = [readers EXCEPT ![rd].pc = "init", ![rd].cell = cell]
              /\ model_solution' = [model_solution EXCEPT ![cell].state = "running"]
         [] model_solution[cell].state = "running" ->
              /\ readers' = [readers EXCEPT ![rd].pc = "wait", ![rd].cell = cell]
              /\ UNCHANGED model_solution
    /\ UNCHANGED << job, problem, outsideSolution >>

\* the caller's closure has run: its value is stored and returned
OnceCell_initialized(rd) ==
    /\ readers[rd].pc = "init"
    /\ LET cell == readers[rd].cell
           value == Initializer(cell, model_solution) IN
         /\ model_solution' = [model_solution EXCEPT
                                  ![cell] = [state |-> "complete", value |-> Some(value),
                                             inits |-> @.inits + 1]]
         /\ readers' = [readers EXCEPT ![rd] = ReturnedRead(@, cell, value)]
    /\ UNCHANGED << job, problem, outsideSolution >>

\* a waiting caller finds the value the other caller stored
OnceCell_waited(rd) ==
    /\ readers[rd].pc = "wait"
    /\ model_solution[readers[rd].cell].state = "complete"
    /\ readers' = [readers EXCEPT ![rd] =
                      ReturnedRead(@, @.cell, Unwrap(model_solution[readers[rd].cell].value))]
    /\ UNCHANGED << model_solution, job, problem, outsideSolution >>

\* a reader calls Solution::path()
CallPath(rd) ==
    /\ CanRead(rd)
    /\ readers' = [readers EXCEPT ![rd] = ReturnedRead(@, "path", Solution_path(model_solution))]
    /\ UNCHANGED << model_solution, job, problem, outsideSolution >>

\* readers of the memoized fields of a Solution made from a test block
\* (`block.into()`: the path of its Assignment is empty)
NextSolution ==
    \/ \E k \in 1..MaxBlocks, t \in Targets : NewSolution(k, PathOf(0), t)
    \/ \E t \in Targets : ChangeJobTarget(t)
    \/ \E rd \in ReaderIds, cell \in Cells : OnceCell_get_or_init(rd, cell)
    \/ \E rd \in ReaderIds : OnceCell_initialized(rd)
    \/ \E rd \in ReaderIds : OnceCell_waited(rd)

SpecSolution == Init /\ [][NextSolution]_vars

\* callers of path() on a Solution whose Assignment came down some path
NextPath ==
    \/ \E k \in 1..MaxBlocks, p \in Paths : NewSolution(k, p, 1)
    \/ DropOrigin
    \/ \E rd \in ReaderIds : CallPath(rd)

SpecPath == Init /\ [][NextPath]_vars

(* ------------------------ block_mining::Problem ----------------------- *)
\* `x as u32`: the low 32 bits, taken as two halves of 16 bits
AsU32(x) == (x % 65536) + 65536 * ((x \div 65536) % 65536)

\* `a ^ b` on unsigned integers
RECURSIVE BitXor(_, _)
BitXor(a, b) ==
    IF a = 0 THEN b
    ELSE IF b = 0 THEN a
    ELSE ((a + b) % 2) + 2 * BitXor(a \div 2, b \div 2)

\* work::Assignment::new(job, midstates, ntime): the path starts empty
Assignment_new(j, midstates, ntime) ==
    [path |-> <<>>, job |-> j, midstates |-> midstates, ntime |-> ntime]

\* variant of the version of a midstate that leaves the target index out
MidstateVersion_plain(correct_version, index, target_midstate) ==
    BitXor(correct_version, AsU32(index))

\* Problem::into_work: `correct_version ^ (index as u32) ^ (self.target_midstate as u32)`
MidstateVersion(correct_version, index, target_midstate) ==
    BitXor(BitXor(correct_version, AsU32(index)), AsU32(target_midstate))

\* Problem::into_work(midstate_count): one midstate per index 0..midstate_count-1
\* (the sequence's element index + 1), each the midstate of the header with
\* that version
Problem_into_work(sol, target_midstate, midstate_count) ==
    Assignment_new(
        Unwrap(sol.work).job,
        [i \in 1..midstate_count |->
            LET version == MidstateVersion(job.version, i - 1, target_midstate) IN
              [version |-> version,
               state |-> << "midstate", Unwrap(sol.work).job, version >>]],
        << "time", Unwrap(sol.work).job >>)

\* Problem::new(model_solution, target_midstate)
Problem_new(target_midstate) ==
    /\ model_solution.state = "alive"
    /\ problem.state = "none"
    /\ problem' = [NoProblem EXCEPT !.state = "new", !.target_midstate = target_midstate]
    /\ UNCHANGED << model_solution, job, readers, outsideSolution >>

\* problem.into_work(midstate_count), which consumes the Problem; the
\* argument of the call is kept beside its result
into_work(midstate_count) ==
    /\ problem.state = "new"
    /\ problem' = [problem EXCEPT
                      !.state = "consumed",
                      !.midstate_count = midstate_count,
                      !.work = Some(Problem_into_work(model_solution, problem.target_midstate,
                                                      midstate_count))]
    /\ UNCHANGED << model_solution, job, readers, outsideSolution >>

NextProblem ==
    \/ \E k \in 1..MaxBlocks, p \in Paths, t \in Targets : NewSolution(k, p, t)
    \/ \E m \in 0..MaxMidstates : Problem_new(m)
    \/ \E n \in 0..MaxMidstates : into_work(n)

SpecProblem == Init /\ [][NextProblem]_vars

(* ------------------------- channel properties ------------------------- *)
\* position of engine e among the values written into channel c
PosOf(c, e) == CHOOSE i \in 1..Len(sent[c]) : sent[c][i] = e

\* the EngineSender that owns the endpoint of channel c
OwnerOf(c) == CHOOSE s \in SenderIds : senders[s].sender = Some(c)

\* this step is receiver r's get_engine() returning Some(engine)
ReturnsSome(r) ==
    /\ receivers[r].state = "alive"
    /\ receivers[r].pc = "check"
    /\ receivers'[r].pc = "idle"

\* this step is receiver r's get_engine() returning None
ReturnsNone(r) ==
    /\ receivers[r].state = "alive"
    /\ receivers[r].pc = "next"
    /\ receivers'[r].pc = "idle"
    /\ receivers'[r].state = "alive"

\* the engine get_engine() returns in a ReturnsSome(r) step
NewRet(r) == Unwrap(receivers'[r].rets[Len(receivers'[r].rets)])

\* C1: last-value-wins: a get_engine() call never returns an engine that was
\* already superseded when the call started, and when nothing was broadcast
\* since the call started it returns the engine the Sender broadcast last
C1_LastValueWins ==
    [][\A r \in ReceiverIds : ReturnsSome(r) =>
          LET c == receivers[r].chan IN
            /\ PosOf(c, NewRet(r)) >= receivers[r].startPos
            /\ Len(sent[c]) = receivers[r].startPos
                  => NewRet(r) = senders[OwnerOf(c)].current_engine]_vars

\* E1, E2, E3 were broadcast while the receiver existed, E1 and E2 still have
\* work, and the receiver's only get_engine() so far returned E3
C1_Witness ==
    \E r \in Clones :
        /\ sent[1] = << Sentinel, 1, 2, 3 >>
        /\ receivers[r].state = "alive"
        /\ receivers[r].bornPos = 1
        /\ receivers[r].rets = << Some(3) >>
        /\ ~is_exhausted(Eng(1)) /\ ~is_exhausted(Eng(2))

\* C2: get_engine() returns only an engine found non-exhausted, suspends only
\* on an exhausted one, and returns None only when the channel is closed and
\* its current value is exhausted
C2_NeverExhausted ==
    [][\A r \in ReceiverIds :
          LET c == receivers[r].chan IN
            /\ ReturnsSome(r) => ~is_exhausted(Eng(NewRet(r)))
            /\ (receivers[r].pc = "check" /\ receivers'[r].pc = "next")
                  => is_exhausted(Eng(receivers[r].engine))
            /\ ReturnsNone(r)
                  => watch[c].closed /\ is_exhausted(Eng(watch[c].value))]_vars

\* a receiver got an engine, and after that engine ran out and the sender was
\* dropped its next get_engine() returned None
C2_Witness ==
    \E r \in Clones :
        /\ Len(receivers[r].rets) = 2
        /\ IsSome(receivers[r].rets[1])
        /\ receivers[r].rets[2] = None
        /\ senders[1].state = "dropped"

\* C4: the first get_engine() of a clone never returns an engine superseded
\* before the clone was made; when nothing was broadcast since, it returns
\* the value that was current when the clone was made
C4_LateSubscriber ==
    [][\A r \in Clones : (ReturnsSome(r) /\ receivers[r].rets = <<>>) =>
          LET c == receivers[r].chan IN
            /\ PosOf(c, NewRet(r)) >= receivers[r].bornPos
            /\ Len(sent[c]) = receivers[r].bornPos
                  => NewRet(r) = sent[c][receivers[r].bornPos]]_vars

\* a clone made after three broadcasts got the third engine while the first
\* two still had work
C4_Witness ==
    \E r \in Clones :
        /\ receivers[r].state = "alive"
        /\ receivers[r].bornPos = 4
        /\ receivers[r].rets = << Some(3) >>
        /\ ~is_exhausted(Eng(1)) /\ ~is_exhausted(Eng(2))

\* C5: the engines one receiver gets from successive get_engine() calls come
\* in broadcast order: none was broadcast before one returned earlier
C5_BroadcastOrder ==
    [][\A r \in ReceiverIds : ReturnsSome(r) =>
          \A i \in 1..Len(receivers[r].rets) :
              IsSome(receivers[r].rets[i]) =>
                  PosOf(receivers[r].chan, Unwrap(receivers[r].rets[i]))
                      <= PosOf(receivers[r].chan, NewRet(r))]_vars

\* a receiver got the first engine and then the third, skipping the second,
\* which still has work
C5_Witness ==
    \E r \in Clones :
        /\ receivers[r].rets = << Some(1), Some(3) >>
        /\ sent[1] = << Sentinel, 1, 2, 3 >>
        /\ ~is_exhausted(Eng(2))

\* C8: no step of get_engine() changes any engine, and when the engine
\* returned last is still the latest value written into the channel, the
\* next get_engine() that returns an engine returns that same engine
C8_Repeatable ==
    [][\A r \in ReceiverIds :
          /\ (receivers[r].state = "alive" /\ receivers'[r].state = "alive"
                 /\ receivers'[r].pc /= receivers[r].pc) => engines' = engines
          /\ (ReturnsSome(r) /\ IsSome(LastRet(r))
                 /\ Len(sent[receivers[r].chan])
                       = PosOf(receivers[r].chan, Unwrap(LastRet(r))))
                => NewRet(r) = Unwrap(LastRet(r))]_vars

\* two get_engine() calls returned the same TestWorkEngine, which still holds
\* all of its work
C8_Witness ==
    \E r \in Clones, e \in EngineIds :
        /\ receivers[r].rets = << Some(e), Some(e) >>
        /\ engines[e] = TestWorkEngine_new(MaxBlocks)

Gave(e, i) == calls[e][i].op = "next_work" /\ calls[e][i].res.tag /= "Exhausted"

\* the calls on engine e that handed out an assignment, and the Breaks
Given(e) == {i \in 1..Len(calls[e]) : Gave(e, i)}
Breaks(e) == {i \in Given(e) : calls[e][i].res.tag = "Break"}

\* terminate() has been called on engine e
WasTerminated(e) == \E i \in 1..Len(calls[e]) : calls[e][i].op = "terminate"

\* C6: once next_work() has returned Break or terminate() has been called,
\* the engine is exhausted and every later next_work() returns Exhausted
C6_ExhaustionTerminal ==
    \A e \in EngineIds : \A i \in 1..Len(calls[e]) :
        (calls[e][i].op = "terminate" \/ calls[e][i].res.tag = "Break") =>
            /\ is_exhausted(Eng(e))
            /\ \A j \in (i + 1)..Len(calls[e]) :
                  calls[e][j].op = "next_work" => calls[e][j].res = Exhausted

\* a TestWorkEngine returned Break, then Exhausted, was terminated, and
\* returned Exhausted again
C6_Witness ==
    \E e \in EngineIds :
        /\ engines[e].kind = "Test"
        /\ Len(calls[e]) = 4
        /\ calls[e][1].res.tag = "Break"
        /\ calls[e][2].res = Exhausted
        /\ calls[e][3].op = "terminate"
        /\ calls[e][4].res = Exhausted

\* C7: a TestWorkEngine over n blocks that is not terminated answers its
\* k-th next_work() with Continue(block k) for k < n, Break(block n) for
\* k = n and Exhausted for k > n
C7_TestEngineSequence ==
    \A e \in EngineIds :
        (engines[e].kind = "Test" /\ ~WasTerminated(e)) =>
            \A k \in 1..Len(calls[e]) :
                calls[e][k].res =
                    IF k < engines[e].len THEN Continue(AssignmentFromTestBlock(k))
                    ELSE IF k = engines[e].len THEN Break(AssignmentFromTestBlock(k))
                    ELSE Exhausted

\* a TestWorkEngine over all the blocks was asked once more than it has blocks
C7_Witness ==
    \E e \in EngineIds :
        /\ engines[e].kind = "Test"
        /\ engines[e].len = MaxBlocks
        /\ ~WasTerminated(e)
        /\ Len(calls[e]) = MaxBlocks + 1

\* C9: whatever the interleaving of the workers' next_work() calls, no
\* assignment is handed out twice and at most one call gets Break; a
\* OneWorkEngine hands out at most one assignment, a TestWorkEngine at most
\* n, and exactly that many, the last as Break, once it ran out of work
\* without being terminated
C9_HandedOutOnce ==
    \A e \in EngineIds :
        LET total == IF engines[e].kind = "One" THEN 1 ELSE engines[e].len IN
        /\ Cardinality(Breaks(e)) <= 1
        /\ \A i, j \in Given(e) : i /= j => calls[e][i].res.val /= calls[e][j].res.val
        /\ Cardinality(Given(e)) <= total
        /\ (engines[e].kind /= "none" /\ is_exhausted(Eng(e)) /\ ~WasTerminated(e)) =>
              /\ Cardinality(Given(e)) = total
              /\ Cardinality(Breaks(e)) = 1

\* two workers shared a TestWorkEngine: each got an assignment, and one of
\* them was then told Exhausted
C9_Witness ==
    \E e \in EngineIds :
        /\ engines[e].kind = "Test"
        /\ ~WasTerminated(e)
        /\ \E i, j \in Given(e) : calls[e][i].by /= calls[e][j].by
        /\ \E i \in 1..Len(calls[e]) : calls[e][i].res = Exhausted

\* C10: a terminate() call leaves the engine exhausted, so that next_work()
\* returns Exhausted, and it leaves an exhausted engine as it was
C10_TerminateForces ==
    [][\A e \in EngineIds :
          (/\ Len(calls'[e]) = Len(calls[e]) + 1
           /\ calls'[e][Len(calls'[e])].op = "terminate") =>
              /\ is_exhausted(engines'[e])
              /\ next_work(engines'[e])[2] = Exhausted
              /\ is_exhausted(Eng(e)) => engines'[e] = engines[e]]_vars

\* a OneWorkEngine was terminated before it gave its work, then asked for
\* work, then terminated again
C10_Witness ==
    \E e \in EngineIds :
        /\ engines[e].kind = "One"
        /\ Len(calls[e]) = 3
        /\ calls[e][1].op = "terminate"
        /\ calls[e][2].op = "next_work" /\ calls[e][2].res = Exhausted
        /\ calls[e][3].op = "terminate"

\* C11: an is_exhausted() call changes nothing of the engine, so the work it
\* still holds and the result of the next next_work() are what they were
\* before the call, however many such calls are made
C11_PeekLeavesEngine ==
    [][\A e \in EngineIds :
          (/\ Len(calls'[e]) = Len(calls[e]) + 1
           /\ calls'[e][Len(calls'[e])].op = "is_exhausted") =>
              /\ engines'[e] = engines[e]
              /\ next_work(engines'[e]) = next_work(engines[e])
              /\ \A i \in 1..Len(calls[e]) : calls'[e][i] = calls[e][i]]_vars

\* a OneWorkEngine was asked is_exhausted() twice, answered false both times,
\* and gave its work to the next_work() after them; a third is_exhausted()
\* then answered true
C11_Witness ==
    \E e \in EngineIds :
        /\ engines[e].kind = "One"
        /\ Len(calls[e]) = 4
        /\ calls[e][1].op = "is_exhausted" /\ calls[e][1].res = Bool(FALSE)
        /\ calls[e][2].op = "is_exhausted" /\ calls[e][2].res = Bool(FALSE)
        /\ calls[e][3].op = "next_work" /\ calls[e][3].res.tag = "Break"
        /\ calls[e][4].op = "is_exhausted" /\ calls[e][4].res = Bool(TRUE)

(* -------------------------- router properties ------------------------ *)
\* the elements of a sequence
Range(q) == {q[i] : i \in 1..Len(q)}

\* the Solutions pushed so far, taken by the router, put into a sink, discarded
Pushed == {n \in SolutionIds : n <= solution_queue.sent}
Queued == Range(solution_queue.items)
Received == Range(router.received)
Discarded == Range(router.discarded)
Forwarded == UNION {Range(clients[c].sink) : c \in ClientIds}

\* no element occurs twice in the sequence
NoDuplicate(q) == \A i, j \in 1..Len(q) : q[i] = q[j] => i = j

\* the router is at work: spawned, neither ended nor panicked
RouterRuns == router.pc \in {"recv", "resolve", "send"}

\* C12: every Solution the router has taken and is done with is in exactly
\* one place, once: the sink of its own origin client, or the discarded ones;
\* none is back in the queue; it is forwarded when the origin is resolvable at
\* the resolution and discarded when it is not
C12_ResolvedOnce ==
    /\ [](/\ \A c \in ClientIds : \A sol \in Range(clients[c].sink) : sol.origin = c
          /\ \A c \in ClientIds : NoDuplicate(clients[c].sink)
          /\ NoDuplicate(router.discarded)
          /\ Forwarded \cap Discarded = {}
          /\ Queued \cap Received = {}
          /\ NoDuplicate(router.received)
          /\ \A sol \in Received :
                \/ sol \in Forwarded \cup Discarded
                \/ router.solution = Some(sol))
    /\ [][router.pc = "resolve" =>
             LET sol == Unwrap(router.solution) IN
               IF clients[sol.origin].alive
               THEN /\ router'.pc = "send"
                    /\ router'.solution_sender = Some(sol.origin)
                    /\ router'.discarded = router.discarded
               ELSE /\ router'.pc = "recv"
                    /\ router'.discarded = Append(router.discarded, sol)]_router
    /\ [][/\ (router.pc = "send" /\ router'.pc = "recv") =>
                LET sol == Unwrap(router.solution) IN
                  /\ clients' = [clients EXCEPT ![sol.origin].sink = Append(@, sol)]
                  /\ router'.discarded = router.discarded
          /\ solution_queue'.items = solution_queue.items
                \/ /\ router.pc = "recv"
                   /\ solution_queue.items /= <<>>
                   /\ solution_queue'.items = Tail(solution_queue.items)
         ]_router

\* of three Solutions taken in turn, the first went to the sink of client 1,
\* the second, of the vanished client 2, was discarded, the third went to the
\* sink of client 1 again
C12_Witness ==
    /\ router.pc = "recv"
    /\ router.received = << Solution(1, 1), Solution(2, 2), Solution(3, 1) >>
    /\ clients[1].sink = << Solution(1, 1), Solution(3, 1) >>
    /\ clients[2].sink = <<>>
    /\ router.discarded = << Solution(2, 2) >>

\* C13: discarding the Solution of a vanished client leaves the router at its
\* receive, and a Solution that waits in the queue behind a discarded one is
\* put into its origin's sink, unless that client vanishes too or the router
\* panics on a sink that refuses a Solution
C13_KeepsProcessing ==
    /\ [][router'.discarded /= router.discarded => router'.pc = "recv"]_router
    /\ \A n \in SolutionIds, c \in ClientIds :
          (/\ Solution(n, c) \in Queued
           /\ \E d \in Discarded : d.id < n)
          ~> (\/ Solution(n, c) \in Range(clients[c].sink)
              \/ ~clients[c].alive
              \/ router.pc = "panicked")

\* the Solution of the vanished client 1 was discarded and the Solution of
\* client 2 pushed after it reached the sink of client 2, whose client lives
C13_Witness ==
    /\ router.discarded = << Solution(1, 1) >>
    /\ clients[2].sink = << Solution(2, 2) >>
    /\ clients[2].alive
    /\ router.pc = "recv"

\* C14: the Solutions in a client's sink are in the order in which they were
\* pushed into the solution queue
C14_PerClientFifo ==
    \A c \in ClientIds : \A i, j \in 1..Len(clients[c].sink) :
        i < j => clients[c].sink[i].id < clients[c].sink[j].id

\* the first and the third Solution pushed are in the sink of client 1 in that
\* order, and the second, of client 2, went to the sink of client 2
C14_Witness ==
    /\ clients[1].sink = << Solution(1, 1), Solution(3, 1) >>
    /\ clients[2].sink = << Solution(2, 2) >>

\* C15: the router has ended only if no sender of the solution queue is left,
\* the queue is empty and every Solution pushed has been forwarded or discarded
C15_EndsOnClosure ==
    router.pc = "done" =>
        /\ SolutionSenders = 0
        /\ solution_queue.items = <<>>
        /\ \A n \in Pushed : \E sol \in Forwarded \cup Discarded : sol.id = n

\* the router ended after it forwarded two Solutions and discarded one
C15_Witness ==
    /\ router.pc = "done"
    /\ Cardinality(Forwarded) = 2
    /\ Cardinality(Discarded) = 1

C17_SendFailureFatal ==
    /\ [][router.pc = "send" =>
             LET c == Unwrap(router.solution_sender) IN
               IF clients[c].sink_open
               THEN router'.pc = "recv"
               ELSE /\ router'.pc = "panicked"
                    /\ clients' = clients
                    /\ router'.discarded = router.discarded]_router
    /\ [][router.pc /= "panicked"]_router
    /\ [](router.pc = "panicked" =>
             /\ Unwrap(router.solution) \notin Forwarded \cup Discarded
             /\ ~clients[Unwrap(router.solution_sender)].sink_open)

\* the router panicked on the Solution of client 1, whose sink was closed
\* after the resolution, with another Solution still in the queue
C17_Witness ==
    /\ router.pc = "panicked"
    /\ router.solution = Some(Solution(1, 1))
    /\ router.solution_sender = Some(1)
    /\ solution_queue.items = << Solution(2, 2) >>
    /\ clients[2].alive

(* ------------------------- Solution properties ------------------------ *)
\* the results the readers got from calls of op
ReadsOf(op) == UNION {{x.res : x \in {y \in readers[rd].reads : y.op = op}} : rd \in ReaderIds}

\* C18: for each of hash(), job_target() and backend_target() the closure
\* runs at most once per Solution, whatever the readers' interleaving, and
\* every call returns the value that run stored
C18_Memoized ==
    \A cell \in Cells :
        /\ model_solution[cell].inits <= 1
        /\ model_solution[cell].state = "complete" <=> model_solution[cell].inits = 1
        /\ \A res \in ReadsOf(cell) : model_solution[cell].value = Some(res)

\* every reader asked for job_target() and got target 1, the value the one
\* run of the closure stored, though the job's target is 2 by now
C18_Witness ==
    /\ job.target = 2
    /\ model_solution.job_target.inits = 1
    /\ \A rd \in ReaderIds :
          [op |-> "job_target", res |-> << "target", 1 >>] \in readers[rd].reads

\* C19: path() returns the origin followed by the stored path while the
\* origin lives and the stored path alone once it is gone, and leaves the
\* Solution, its stored path included, as it was
C19_PathOfVanishedOrigin ==
    [][\A rd \in ReaderIds : \A x \in readers'[rd].reads \ readers[rd].reads :
          x.op = "path" =>
              LET stored == Unwrap(model_solution.work).path IN
                /\ job.origin = "alive" =>
                      /\ Len(x.res) = Len(stored) + 1
                      /\ x.res[1] = << "origin", job.block >>
                      /\ \A i \in 1..Len(stored) : x.res[i + 1] = stored[i]
                /\ job.origin = "dropped" => x.res = stored
                /\ model_solution' = model_solution]_vars

\* a reader got the origin and the two stored nodes, and after the origin was
\* dropped the two stored nodes alone
C19_Witness ==
    \E rd \in ReaderIds :
        /\ job.origin = "dropped"
        /\ readers[rd].reads =
              {[op |-> "path", res |-> << << "origin", job.block >> >> \o PathOf(2)],
               [op |-> "path", res |-> PathOf(2)]}

(* ------------------------- Problem properties ------------------------- *)
\* C20: the Assignment into_work(N) builds has N midstates, their versions
\* differ from one another, the version at index i is the job's version XOR i
\* XOR target_midstate, and for target_midstate < N the midstate at that
\* index has the job's own version
C20_AsicBoostFanOut ==
    problem.state = "consumed" =>
        LET midstates == Unwrap(problem.work).midstates
            N == problem.midstate_count
            target == problem.target_midstate IN
          /\ Len(midstates) = N
          /\ \A i, j \in 1..N : i /= j => midstates[i].version /= midstates[j].version
          /\ \A i \in 1..N :
                midstates[i].version = BitXor(BitXor(job.version, i - 1), target)
          /\ target < N => midstates[target + 1].version = job.version
          /\ \A i \in 1..N : i /= target + 1 => midstates[i].version /= job.version

\* an Assignment with four midstates was built for target midstate 2 from the
\* block of version 0x20000000: that version is at index 2 alone
C20_Witness ==
    /\ problem.state = "consumed"
    /\ problem.target_midstate = 2
    /\ Len(Unwrap(problem.work).midstates) = 4
    /\ job.version = 536870912
    /\ Unwrap(problem.work).midstates[3].version = 536870912
    /\ Unwrap(problem.work).midstates[1].version = 536870914

(* ----------------------- backend hierarchy --------------------------- *)
\* Weak::upgrade() of Core::backend_registry succeeds while somebody holds an
\* Arc of the Registry
RegistryAlive == registry.holders /= {}

\* the nodes registered so far; a new node gets the next id, so that ids
\* follow the order of registration
NextNode == Len(registry.work_hubs) + Len(registry.work_solvers) + 1

\* the registry after an Arc of it held by h was dropped: the last Arc frees it
ReleasedBy(h) ==
    IF registry.holders = {h}
    THEN [holders |-> {}, root_hub |-> None, work_hubs |-> <<>>, work_solvers |-> <<>>]
    ELSE [registry EXCEPT !.holders = @ \ {h}]

\* the frontend drops its Arc<backend::Registry>
DropRegistry ==
    /\ Frontend \in registry.holders
    /\ registry' = ReleasedBy(Frontend)
    /\ UNCHANGED << backends, lookup, outsideBackend >>

\* variant of the start of build_backend that looks for the registry only
\* when a node is to be registered
build_backend_late(b) ==
    /\ backends[b].pc = "idle"
    /\ \A d \in BackendIds : d < b => backends[d].pc /= "idle"
    /\ backends' = [backends EXCEPT ![b].pc = "create"]
    /\ registry' = IF RegistryAlive THEN [registry EXCEPT !.holders = @ \cup {b}]
                   ELSE registry
    /\ UNCHANGED << lookup, outsideBackend >>

\* Core::build_backend up to T::create: work::SolverBuilder::new is given
\* backend_registry.upgrade().expect("BUG: missing backend registry"), an Arc
\* the builder keeps; without a registry the call panics here
build_backend(b) ==
    /\ backends[b].pc = "idle"
    /\ \A d \in BackendIds : d < b => backends[d].pc /= "idle"
    /\ IF RegistryAlive
       THEN /\ registry' = [registry EXCEPT !.holders = @ \cup {b}]
            /\ backends' = [backends EXCEPT ![b].pc = "create"]
       ELSE /\ backends' = [backends EXCEPT ![b].pc = "panicked"]
            /\ UNCHANGED registry
    /\ UNCHANGED << lookup, outsideBackend >>

\* `match T::create(&mut backend_config)`: the backend answers WorkHub(create)
\* or WorkSolver(create)
Backend_create(b, kind) ==
    /\ backends[b].pc = "create"
    /\ backends' = [backends EXCEPT ![b].pc = "node", ![b].kind = Some(kind),
                                    ![b].trace = Append(@, "create")]
    /\ UNCHANGED << registry, lookup, outsideBackend >>

\* variant of the WorkHub arm that enters the initializer before the hub is
\* put into the registry
create_work_hub_after(b) ==
    /\ backends[b].pc = "node"
    /\ backends[b].kind = Some("WorkHub")
    /\ NextNode \in NodeIds
    /\ registry' = [registry EXCEPT
                       !.root_hub = IF @ = None THEN Some(NextNode) ELSE @,
                       !.work_hubs = Append(@, NextNode)]
    /\ backends' = [backends EXCEPT ![b].pc = "in_init", ![b].node = NextNode,
                                    ![b].trace = @ \o << "init_work_hub", "register" >>]
    /\ UNCHANGED << lookup, outsideBackend >>

\* SolverBuilder::create_work_hub on the builder of a backend: the hub is
\* created and put into the registry, as the root hub when there is none yet
create_work_hub(b) ==
    /\ backends[b].pc = "node"
    /\ backends[b].kind = Some("WorkHub")
    /\ NextNode \in NodeIds
    /\ registry' = [registry EXCEPT
                       !.root_hub = IF @ = None THEN Some(NextNode) ELSE @,
                       !.work_hubs = Append(@, NextNode)]
    /\ backends' = [backends EXCEPT ![b].pc = "init", ![b].node = NextNode,
                                    ![b].trace = Append(@, "register")]
    /\ UNCHANGED << lookup, outsideBackend >>

\* SolverBuilder::create_work_solver on the builder of a backend: the solver
\* is created and put into the registry
create_work_solver(b) ==
    /\ backends[b].pc = "node"
    /\ backends[b].kind = Some("WorkSolver")
    /\ NextNode \in NodeIds
    /\ registry' = [registry EXCEPT !.work_solvers = Append(@, NextNode)]
    /\ backends' = [backends EXCEPT ![b].pc = "init", ![b].node = NextNode,
                                    ![b].trace = Append(@, "register")]
    /\ UNCHANGED << lookup, outsideBackend >>

\* `T::init_work_hub(backend_config, work_hub).await` is entered
init_work_hub(b) ==
    /\ backends[b].pc = "init"
    /\ backends[b].kind = Some("WorkHub")
    /\ backends' = [backends EXCEPT ![b].pc = "in_init",
                                    ![b].trace = Append(@, "init_work_hub")]
    /\ UNCHANGED << registry, lookup, outsideBackend >>

\* `T::init_work_solver(backend_config, work_solver).await` is entered
init_work_solver(b) ==
    /\ backends[b].pc = "init"
    /\ backends[b].kind = Some("WorkSolver")
    /\ backends' = [backends EXCEPT ![b].pc = "in_init",
                                    ![b].trace = Append(@, "init_work_solver")]
    /\ UNCHANGED << registry, lookup, outsideBackend >>

\* variant of the registration of a child solver that lists it with the hubs
\* as well
create_child_solver_both(b) ==
    /\ backends[b].pc = "in_init"
    /\ backends[b].kind = Some("WorkHub")
    /\ NextNode \in NodeIds
    /\ registry' = [registry EXCEPT !.work_solvers = Append(@, NextNode),
                                    !.work_hubs = Append(@, NextNode)]
    /\ backends' = [backends EXCEPT
                       ![b].children = Append(@, [node |-> NextNode, kind |-> "WorkSolver"])]
    /\ UNCHANGED << lookup, outsideBackend >>

\* inside init_work_hub the backend builds its hierarchy with the builder it
\* was given: create_work_solver of a child
create_child_solver(b) ==
    /\ backends[b].pc = "in_init"
    /\ backends[b].kind = Some("WorkHub")
    /\ NextNode \in NodeIds
    /\ registry' = [registry EXCEPT !.work_solvers = Append(@, NextNode)]
    /\ backends' = [backends EXCEPT
                       ![b].children = Append(@, [node |-> NextNode, kind |-> "WorkSolver"])]
    /\ UNCHANGED << lookup, outsideBackend >>

\* inside init_work_hub: create_work_hub of a child hub
create_child_hub(b) ==
    /\ backends[b].pc = "in_init"
    /\ backends[b].kind = Some("WorkHub")
    /\ NextNode \in NodeIds
    /\ registry' = [registry EXCEPT !.work_hubs = Append(@, NextNode)]
    /\ backends' = [backends EXCEPT
                       ![b].children = Append(@, [node |-> NextNode, kind |-> "WorkHub"])]
    /\ UNCHANGED << lookup, outsideBackend >>

\* the initializer returns and with it build_backend; the builder and its Arc
\* of the registry are gone
build_backend_return(b) ==
    /\ backends[b].pc = "in_init"
    /\ backends' = [backends EXCEPT ![b].pc = "done"]
    /\ registry' = ReleasedBy(b)
    /\ UNCHANGED << lookup, outsideBackend >>

\* what a lookup returned (or that it panicked), and whether the registry
\* was alive when it was made
Lookup(op, res, panicked) ==
    [op |-> op, alive |-> RegistryAlive, res |-> res, panicked |-> panicked]

\* Core::get_root_hub: `self.backend_registry.upgrade()?.lock_root_hub().await.clone()`
get_root_hub ==
    /\ lookup' = Some(Lookup("get_root_hub",
                             IF RegistryAlive THEN registry.root_hub ELSE None, FALSE))
    /\ UNCHANGED << registry, backends, outsideBackend >>

\* variant of get_work_hubs that expects the registry the way build_backend does
get_work_hubs_expect ==
    /\ lookup' = Some(Lookup("get_work_hubs",
                             IF RegistryAlive THEN registry.work_hubs ELSE <<>>,
                             ~RegistryAlive))
    /\ UNCHANGED << registry, backends, outsideBackend >>

\* Core::get_work_hubs: a copy of the list of hubs, `vec![]` without a registry
get_work_hubs ==
    /\ lookup' = Some(Lookup("get_work_hubs",
                             IF RegistryAlive THEN registry.work_hubs ELSE <<>>, FALSE))
    /\ UNCHANGED << registry, backends, outsideBackend >>

\* Core::get_work_solvers: a copy of the list of solvers, `vec![]` without a registry
get_work_solvers ==
    /\ lookup' = Some(Lookup("get_work_solvers",
                             IF RegistryAlive THEN registry.work_solvers ELSE <<>>, FALSE))
    /\ UNCHANGED << registry, backends, outsideBackend >>

NextBackend ==
    \/ DropRegistry
    \/ \E b \in BackendIds : build_backend(b)
    \/ \E b \in BackendIds, kind \in WorkSolverTypes : Backend_create(b, kind)
    \/ \E b \in BackendIds : create_work_hub(b)
    \/ \E b \in BackendIds : create_work_solver(b)
    \/ \E b \in BackendIds : init_work_hub(b)
    \/ \E b \in BackendIds : init_work_solver(b)
    \/ \E b \in BackendIds : create_child_solver(b)
    \/ \E b \in BackendIds : create_child_hub(b)
    \/ \E b \in BackendIds : build_backend_return(b)
    \/ get_root_hub
    \/ get_work_hubs
    \/ get_work_solvers

SpecBackend == Init /\ [][NextBackend]_vars

(* ------------------------ backend properties -------------------------- *)
\* C21: a lookup through the Core made after the Registry was dropped
\* returns normally and empty: get_root_hub() None, get_work_hubs() and
\* get_work_solvers() the empty list
C21_LookupsDegrade ==
    IsSome(lookup) /\ ~Unwrap(lookup).alive =>
        /\ ~Unwrap(lookup).panicked
        /\ Unwrap(lookup).op = "get_root_hub" => Unwrap(lookup).res = None
        /\ Unwrap(lookup).op \in {"get_work_hubs", "get_work_solvers"}
              => Unwrap(lookup).res = <<>>

\* a backend was built and registered its node, the registry was dropped, and
\* get_work_solvers() then returned the empty list
C21_Witness ==
    /\ backends[1].pc = "done"
    /\ backends[1].kind = Some("WorkSolver")
    /\ ~RegistryAlive
    /\ lookup = Some([op |-> "get_work_solvers", alive |-> FALSE, res |-> <<>>,
                      panicked |-> FALSE])

\* C22: a build_backend call made after the Registry was dropped panics at
\* once: T::create is not called, no node is created or registered, and the
\* call does nothing afterwards
C22_BuildWithoutRegistryAborts ==
    /\ [][\A b \in BackendIds :
            backends[b].pc = "idle" /\ backends'[b].pc /= "idle" /\ ~RegistryAlive
                => /\ backends'[b] = [NoBuild EXCEPT !.pc = "panicked"]
                   /\ registry' = registry]_vars
    /\ [][\A b \in BackendIds :
            backends[b].pc = "panicked"
                => backends'[b] = backends[b] /\ registry' = registry]_vars
    /\ [](\A b \in BackendIds :
            backends[b].pc = "panicked"
                => backends[b].trace = <<>> /\ backends[b].node = 0 /\ NextNode = 1)

\* the first backend was built, the registry was dropped after that, and the
\* second build_backend call panicked
C22_Witness ==
    /\ backends[1].pc = "done"
    /\ backends[1].node /= 0
    /\ backends[2].pc = "panicked"

\* the steps of a complete build_backend call for what T::create answered
StepsOf(kind) ==
    IF kind = "WorkHub" THEN << "create", "register", "init_work_hub" >>
    ELSE << "create", "register", "init_work_solver" >>

\* sequence p is a prefix of sequence q
IsPrefix(p, q) == Len(p) <= Len(q) /\ \A i \in 1..Len(p) : p[i] = q[i]

\* C23: every build_backend call does create, then node creation and
\* registration, then the one initializer that matches what create answered,
\* once; children are registered only from inside init_work_hub
C23_CreateRegisterInit ==
    \A b \in BackendIds :
        /\ backends[b].kind = None => backends[b].trace = <<>>
        /\ IsSome(backends[b].kind) =>
              /\ IsPrefix(backends[b].trace, StepsOf(Unwrap(backends[b].kind)))
              /\ Len(backends[b].trace) >= 2
                    => backends[b].node \in Range(registry.work_hubs)
                                            \cup Range(registry.work_solvers)
                       \/ ~RegistryAlive
              /\ backends[b].pc \in {"in_init", "done"}
                    => backends[b].trace = StepsOf(Unwrap(backends[b].kind))
              /\ backends[b].children /= <<>>
                    => backends[b].trace = StepsOf("WorkHub")

\* one backend was built as a work hub and one as a work solver, each with its
\* own initializer
C23_Witness ==
    /\ backends[1].pc = "done"
    /\ backends[1].trace = << "create", "register", "init_work_hub" >>
    /\ backends[2].pc = "done"
    /\ backends[2].trace = << "create", "register", "init_work_solver" >>

\* the nodes the backends created, by what they were created as
NodesOf(kind) ==
    {backends[b].node : b \in {d \in BackendIds : backends[d].node /= 0
                                                  /\ backends[d].kind = Some(kind)}}
    \cup UNION {{backends[b].children[i].node :
                    i \in {k \in 1..Len(backends[b].children) :
                              backends[b].children[k].kind = kind}} : b \in BackendIds}

\* the ids of S in ascending order, which is the order of their registration
Ascending(S) ==
    CHOOSE q \in [1..Cardinality(S) -> S] :
        \A i, j \in 1..Cardinality(S) : i < j => q[i] < q[j]

\* C24: while the registry is alive it lists every created hub once among the
\* hubs and every created solver once among the solvers, each list in the
\* order of registration, and get_work_hubs() and get_work_solvers() return
\* exactly these lists
C24_RegistryFollowsRegistration ==
    /\ [](RegistryAlive =>
            /\ registry.work_hubs = Ascending(NodesOf("WorkHub"))
            /\ registry.work_solvers = Ascending(NodesOf("WorkSolver"))
            /\ Range(registry.work_hubs) \cap Range(registry.work_solvers) = {})
    /\ [][lookup' /= lookup /\ RegistryAlive =>
            /\ Unwrap(lookup').op = "get_work_hubs"
                  => Unwrap(lookup').res = Ascending(NodesOf("WorkHub"))
            /\ Unwrap(lookup').op = "get_work_solvers"
                  => Unwrap(lookup').res = Ascending(NodesOf("WorkSolver"))]_vars

\* a work hub was registered, then two work solvers under it, and
\* get_work_solvers() returned the two solvers while the hubs are the one hub
C24_Witness ==
    /\ RegistryAlive
    /\ backends[1].kind = Some("WorkHub")
    /\ backends[1].node = 1
    /\ backends[1].children = << [node |-> 2, kind |-> "WorkSolver"],
                                 [node |-> 3, kind |-> "WorkSolver"] >>
    /\ registry.work_hubs = << 1 >>
    /\ lookup = Some([op |-> "get_work_solvers", alive |-> TRUE, res |-> << 2, 3 >>,
                      panicked |-> FALSE])

(* ------------------------- engine generator --------------------------- *)
\* variant of the engine generator that builds every engine from the first
\* test block, whatever the job is
EngineGenerator_call_first(g, k) ==
    CASE g = "default" -> ExhaustedWork
      [] g = "VersionRolling" -> VersionRolling_new(1)
      [] g = "OneWorkEngine" -> OneWorkEngine_new(AssignmentFromTestBlock(1))
      [] g = "TestWorkEngine" -> TestWorkEngine_new(MaxBlocks)

\* calling an EngineGenerator on the job made of test block k: the default
\* one is `|_| Arc::new(engine::ExhaustedWork)`; the two others are closures
\* a job solver installs, building a OneWorkEngine for the job's work and a
\* TestWorkEngine
EngineGenerator_call(g, k) ==
    CASE g = "default" -> ExhaustedWork
      [] g = "VersionRolling" -> VersionRolling_new(k)
      [] g = "OneWorkEngine" -> OneWorkEngine_new(AssignmentFromTestBlock(k))
      [] g = "TestWorkEngine" -> TestWorkEngine_new(MaxBlocks)

\* the slot a newly generated engine takes
FreeSlots == {e \in EngineIds : engines[e].kind = "none"}
NextSlot == CHOOSE e \in FreeSlots : \A d \in FreeSlots : e <= d

\* EngineSender::broadcast_job(job) for the job made of test block k, up to the
\* replacement of the value: the generator is called (the expect() panics
\* with the lock held when there is none) and its engine is broadcast; every
\* ExhaustedWork instance is the sentinel
broadcast_job(s, k) ==
    /\ CanBroadcast(s)
    /\ IF senders[s].engine_generator = None
       THEN /\ senders' = [senders EXCEPT ![s].state = "poisoned"]
            /\ UNCHANGED << engines, watch, sent >>
       ELSE LET engine == EngineGenerator_call(Unwrap(senders[s].engine_generator), k) IN
            IF engine = ExhaustedWork
            THEN /\ re_broadcast(s, [senders[s] EXCEPT !.current_engine = Sentinel])
                 /\ UNCHANGED engines
            ELSE /\ FreeSlots /= {}
                 /\ engines' = [engines EXCEPT ![NextSlot] = engine]
                 /\ re_broadcast(s, [senders[s] EXCEPT !.current_engine = NextSlot])
    /\ UNCHANGED << calls, receivers, outsideWork >>

\* variant of replace_engine_generator that does take() where the code does
\* replace(): the generator is returned and none is left
replace_engine_generator_take(s, g) ==
    /\ senders[s].state = "alive"
    /\ senders[s].pc = "idle"
    /\ Len(replaced[s]) < MaxReplacements
    /\ IsSome(senders[s].engine_generator)
    /\ senders' = [senders EXCEPT ![s].engine_generator = None]
    /\ replaced' = [replaced EXCEPT ![s] =
                       Append(@, [installed |-> g,
                                  returned |-> Unwrap(senders[s].engine_generator)])]
    /\ UNCHANGED << engineVars, watch, sent, receivers, swaps,
                    routerVars, solutionVars, backendVars >>

\* variant of replace_engine_generator that returns the installed generator
\* and leaves it in place
replace_engine_generator_get(s, g) ==
    /\ senders[s].state = "alive"
    /\ senders[s].pc = "idle"
    /\ Len(replaced[s]) < MaxReplacements
    /\ IsSome(senders[s].engine_generator)
    /\ replaced' = [replaced EXCEPT ![s] =
                       Append(@, [installed |-> g,
                                  returned |-> Unwrap(senders[s].engine_generator)])]
    /\ UNCHANGED << workVars, swaps, routerVars, solutionVars, backendVars >>

\* EngineSender::replace_engine_generator(g): under the lock,
\* `engine_generator.replace(g).expect("BUG: missing engine generator")`; the
\* call is recorded with the generator it returned
replace_engine_generator(s, g) ==
    /\ senders[s].state = "alive"
    /\ senders[s].pc = "idle"
    /\ Len(replaced[s]) < MaxReplacements
    /\ IF senders[s].engine_generator = None
       THEN /\ senders' = [senders EXCEPT ![s].engine_generator = Some(g),
                                          ![s].state = "poisoned"]
            /\ UNCHANGED replaced
       ELSE /\ senders' = [senders EXCEPT ![s].engine_generator = Some(g)]
            /\ replaced' = [replaced EXCEPT ![s] =
                               Append(@, [installed |-> g,
                                          returned |-> Unwrap(senders[s].engine_generator)])]
    /\ UNCHANGED << engineVars, watch, sent, receivers, swaps,
                    routerVars, solutionVars, backendVars >>

\* the jobs the generator specification broadcasts are made of TEST_BLOCKS
NextGenerator ==
    \/ \E s \in SenderIds, g \in Generators \ {"default"} : replace_engine_generator(s, g)
    \/ \E s \in SenderIds, k \in 1..MaxBlocks : broadcast_job(s, k)
    \/ \E s \in SenderIds : WatchNotify(s)
    \/ \E r \in Clones : GetEngineBorrow(r)
    \/ \E r \in Clones : GetEngineCheck(r)
    \/ \E r \in Clones : GetEngineNext(r)
    \/ \E n \in Clones : CloneReceiver(CoreReceiver, n)
    \/ \E r \in ReceiverIds : DropReceiver(r)

SpecGenerator == Init /\ [][NextGenerator]_vars

(* ------------------------ generator properties ------------------------ *)
\* this step is a broadcast_job call of sender s taking the lock (the other
\* steps of a sender are replace_engine_generator, which is recorded, and the
\* second half of a broadcast, which starts from pc "notify")
BroadcastsJob(s) ==
    /\ senders[s].state = "alive"
    /\ senders[s].pc = "idle"
    /\ senders'[s] /= senders[s]
    /\ replaced'[s] = replaced[s]

BuiltBy(g) ==
    CASE g = "default" -> "ExhaustedWork"
      [] g = "OneWorkEngine" -> "One"
      [] g = "TestWorkEngine" -> "Test"

\* the generator sender s has after the calls recorded for it
Installed(s) ==
    IF replaced[s] = <<>> THEN "default" ELSE replaced[s][Len(replaced[s])].installed

\* C26: replace_engine_generator(g) installs g and returns the generator that
\* was installed before, in one step that leaves the current engine, the
\* endpoint and the channel alone; every broadcast_job broadcasts an engine
\* built by the generator installed by the latest replace_engine_generator
\* call before it
C26_GeneratorReplaced ==
    /\ [](\A s \in SenderIds :
            senders[s].state = "alive" => senders[s].engine_generator = Some(Installed(s)))
    /\ [][\A s \in SenderIds :
            replaced'[s] /= replaced[s]
               => /\ Len(replaced'[s]) = Len(replaced[s]) + 1
                  /\ replaced'[s][Len(replaced'[s])].returned = Installed(s)
                  /\ senders'[s].engine_generator
                        = Some(replaced'[s][Len(replaced'[s])].installed)
                  /\ senders'[s].current_engine = senders[s].current_engine
                  /\ senders'[s].sender = senders[s].sender
                  /\ senders'[s].pc = senders[s].pc
                  /\ watch' = watch /\ sent' = sent /\ engines' = engines]_vars
    /\ [][\A s \in SenderIds :
            BroadcastsJob(s) /\ senders'[s].state = "alive"
               => LET c == Unwrap(senders[s].sender) IN
                    /\ engines'[senders'[s].current_engine].kind = BuiltBy(Installed(s))
                    /\ sent'[c] = Append(sent[c], senders'[s].current_engine)]_vars

\* the default generator was replaced by one and that by another, each call
\* returning its predecessor, and the job broadcast after that got an engine
\* of the last one
C26_Witness ==
    /\ replaced[1] = << [installed |-> "OneWorkEngine", returned |-> "default"],
                        [installed |-> "TestWorkEngine", returned |-> "OneWorkEngine"] >>
    /\ sent[1] = << Sentinel, 1, 2 >>
    /\ engines[1].kind = "One"
    /\ engines[2].kind = "Test"
    /\ senders[1].current_engine = 2

(* ---------------------------- swap_sender ----------------------------- *)
\* a second engine_channel() call: its EngineSender, watch channel and
\* EngineReceiver take the ids of Second
engine_channel_second ==
    /\ senders[Second].state = "none"
    /\ receivers[Second].state = "none"
    /\ senders' = [senders EXCEPT ![Second] = EngineSender_create(Sentinel, Some(Second))]
    /\ receivers' = [receivers EXCEPT ![Second] =
                        [NoReceiver("alive") EXCEPT !.chan = Second, !.bornPos = 1]]
    /\ UNCHANGED << engineVars, watch, sent, outsideWork >>

\* EngineSender::new(None): a Sender without an endpoint whose current engine
\* is a new ExhaustedWork
EngineSender_new ==
    /\ senders[Second].state = "none"
    /\ senders' = [senders EXCEPT ![Second] = EngineSender_create(Sentinel, None)]
    /\ UNCHANGED << engineVars, watch, sent, receivers, outsideWork >>

\* the version of the channel behind an endpoint (0 without one)
VersionOf(sender) == IF sender = None THEN 0 ELSE watch[Unwrap(sender)].version

\* variant of the entry of swap_sender without the assertion
swap_sender_unchecked(t, a, b) ==
    /\ swaps[t].pc = "idle"
    /\ senders[a].state \in {"alive", "poisoned"}
    /\ senders[b].state \in {"alive", "poisoned"}
    /\ \A c \in ChanIds : Len(sent[c]) <= MaxBroadcasts
    /\ swaps' = [swaps EXCEPT ![t] = [NoSwap EXCEPT !.pc = "lock_self",
                                                    !.self = a, !.other = b]]
    /\ UNCHANGED << workVars, replaced, routerVars, solutionVars, backendVars >>

\* a.swap_sender(b) by thread t, up to the assertion
\* `assert!(!ptr::eq(self, other), "BUG: swapping the same engine sender")`
swap_sender(t, a, b) ==
    /\ swaps[t].pc = "idle"
    /\ senders[a].state \in {"alive", "poisoned"}
    /\ senders[b].state \in {"alive", "poisoned"}
    /\ \A c \in ChanIds : Len(sent[c]) <= MaxBroadcasts
    /\ swaps' = [swaps EXCEPT ![t] =
                    [NoSwap EXCEPT !.pc = IF a = b THEN "panicked" ELSE "lock_self",
                                   !.self = a, !.other = b]]
    /\ UNCHANGED << workVars, replaced, routerVars, solutionVars, backendVars >>

\* `let a = &mut *self.lock_inner()`: waits for the lock of self; the expect()
\* of lock_inner panics on a poisoned lock
swap_sender_lock_self(t) ==
    /\ swaps[t].pc = "lock_self"
    /\ senders[swaps[t].self].pc = "idle"
    /\ IF senders[swaps[t].self].state = "poisoned"
       THEN /\ swaps' = [swaps EXCEPT ![t].pc = "panicked"]
            /\ UNCHANGED senders
       ELSE /\ swaps' = [swaps EXCEPT ![t].pc = "lock_other"]
            /\ senders' = [senders EXCEPT ![swaps[t].self].pc = "swap"]
    /\ UNCHANGED << engineVars, watch, sent, receivers, replaced,
                    routerVars, solutionVars, backendVars >>

\* the state of both senders when the swap has both locks
Before(a, b) ==
    [a_sender |-> senders[a].sender, b_sender |-> senders[b].sender,
     a_engine |-> senders[a].current_engine, b_engine |-> senders[b].current_engine,
     a_generator |-> senders[a].engine_generator,
     b_generator |-> senders[b].engine_generator,
     a_version |-> VersionOf(senders[a].sender),
     b_version |-> VersionOf(senders[b].sender)]

\* both senders after a panic inside the swap: the two guards are dropped by
\* the unwinding, which poisons both locks
Poisoned(snd, a, b) ==
    [x \in SenderIds |->
        IF x \in {a, b} THEN [snd[x] EXCEPT !.state = "poisoned", !.pc = "idle"]
        ELSE snd[x]]

\* variant of the swap that exchanges the endpoints and broadcasts nothing
swap_sender_swap_quiet(t) ==
    LET a == swaps[t].self
        b == swaps[t].other IN
    /\ swaps[t].pc = "lock_other"
    /\ senders[b].pc = "idle"
    /\ senders[b].state = "alive"
    /\ senders' = [senders EXCEPT ![a].sender = senders[b].sender,
                                  ![b].sender = senders[a].sender,
                                  ![b].pc = "swap"]
    /\ swaps' = [swaps EXCEPT ![t].pc = "b_notify", ![t].before = Some(Before(a, b))]
    /\ UNCHANGED << engineVars, watch, sent, receivers, replaced,
                    routerVars, solutionVars, backendVars >>

\* `let b = &mut *other.lock_inner()`, `mem::swap(&mut a.sender, &mut b.sender)`
\* and a.re_broadcast() up to the replacement of the value: a's current
\* engine goes into the endpoint a has now, if it has one; the expect() of
\* re_broadcast panics when that channel has no receiver left
swap_sender_swap(t) ==
    LET a == swaps[t].self
        b == swaps[t].other
        swapped == [senders EXCEPT ![a].sender = senders[b].sender,
                                   ![b].sender = senders[a].sender,
                                   ![b].pc = "swap"] IN
    /\ swaps[t].pc = "lock_other"
    /\ senders[b].pc = "idle"
    /\ IF senders[b].state = "poisoned"
       THEN /\ swaps' = [swaps EXCEPT ![t].pc = "panicked"]
            /\ senders' = Poisoned(senders, a, b)
            /\ UNCHANGED << watch, sent >>
       ELSE IF swapped[a].sender = None
       THEN /\ swaps' = [swaps EXCEPT ![t].pc = "a_notify",
                                      ![t].before = Some(Before(a, b))]
            /\ senders' = swapped
            /\ UNCHANGED << watch, sent >>
       ELSE IF AliveOn(Unwrap(swapped[a].sender)) = {}
       THEN /\ swaps' = [swaps EXCEPT ![t].pc = "panicked",
                                      ![t].before = Some(Before(a, b))]
            /\ senders' = Poisoned(swapped, a, b)
            /\ UNCHANGED << watch, sent >>
       ELSE LET c == Unwrap(swapped[a].sender) IN
            /\ swaps' = [swaps EXCEPT ![t].pc = "a_notify",
                                      ![t].before = Some(Before(a, b))]
            /\ senders' = swapped
            /\ watch' = [watch EXCEPT ![c].value = senders[a].current_engine]
            /\ sent' = [sent EXCEPT ![c] = Append(@, senders[a].current_engine)]
    /\ UNCHANGED << engineVars, receivers, replaced,
                    routerVars, solutionVars, backendVars >>

\* the watch channel after the second half of a broadcast into an endpoint
Notified(w, sender) ==
    IF sender = None THEN w ELSE [w EXCEPT ![Unwrap(sender)].version = @ + 1]

\* variant of the re-broadcasts that leaves out b.re_broadcast()
swap_sender_re_broadcast_once(t) ==
    /\ swaps[t].pc = "a_notify"
    /\ swaps' = [swaps EXCEPT ![t].pc = "b_notify"]
    /\ watch' = Notified(watch, senders[swaps[t].self].sender)
    /\ UNCHANGED << engineVars, senders, sent, receivers, replaced,
                    routerVars, solutionVars, backendVars >>

\* the second half of a.re_broadcast(), then b.re_broadcast() up to the
\* replacement of the value
swap_sender_re_broadcast(t) ==
    LET a == swaps[t].self
        b == swaps[t].other IN
    /\ swaps[t].pc = "a_notify"
    /\ IF senders[b].sender = None
       THEN /\ swaps' = [swaps EXCEPT ![t].pc = "b_notify"]
            /\ watch' = Notified(watch, senders[a].sender)
            /\ UNCHANGED << senders, sent >>
       ELSE IF AliveOn(Unwrap(senders[b].sender)) = {}
       THEN /\ swaps' = [swaps EXCEPT ![t].pc = "panicked"]
            /\ watch' = Notified(watch, senders[a].sender)
            /\ senders' = Poisoned(senders, a, b)
            /\ UNCHANGED sent
       ELSE LET c == Unwrap(senders[b].sender) IN
            /\ swaps' = [swaps EXCEPT ![t].pc = "b_notify"]
            /\ watch' = [Notified(watch, senders[a].sender) EXCEPT
                            ![c].value = senders[b].current_engine]
            /\ sent' = [sent EXCEPT ![c] = Append(@, senders[b].current_engine)]
            /\ UNCHANGED senders
    /\ UNCHANGED << engineVars, receivers, replaced,
                    routerVars, solutionVars, backendVars >>

\* the second half of b.re_broadcast(); swap_sender returns and both guards
\* are dropped
swap_sender_return(t) ==
    LET a == swaps[t].self
        b == swaps[t].other IN
    /\ swaps[t].pc = "b_notify"
    /\ watch' = Notified(watch, senders[b].sender)
    /\ senders' = [senders EXCEPT ![a].pc = "idle", ![b].pc = "idle"]
    /\ swaps' = [swaps EXCEPT ![t].pc = "idle"]
    /\ UNCHANGED << engineVars, sent, receivers, replaced,
                    routerVars, solutionVars, backendVars >>

\* the engines the swap specification broadcasts
SwapEngines == {OneWorkEngine_new(AssignmentFromTestBlock(1))}

NextSwap ==
    \/ engine_channel_second
    \/ EngineSender_new
    \/ \E s \in SenderIds, e \in EngineIds, eng \in SwapEngines : broadcast_engine(s, e, eng)
    \/ \E s \in SenderIds : WatchNotify(s)
    \/ \E t \in Swappers, a, b \in SenderIds : swap_sender(t, a, b)
    \/ \E t \in Swappers : swap_sender_lock_self(t)
    \/ \E t \in Swappers : swap_sender_swap(t)
    \/ \E t \in Swappers : swap_sender_re_broadcast(t)
    \/ \E t \in Swappers : swap_sender_return(t)
    \/ \E r \in Clones : GetEngineBorrow(r)
    \/ \E r \in Clones : GetEngineCheck(r)
    \/ \E r \in Clones : GetEngineNext(r)
    \/ \E r \in ReceiverIds : DropReceiver(r)

SpecSwap == Init /\ [][NextSwap]_vars

(* --------------------------- swap properties -------------------------- *)
\* this step is the return of thread t's swap_sender call
SwapReturns(t) == swaps[t].pc = "b_notify" /\ swaps'[t].pc = "idle"

\* the endpoint a sender got from the other one holds the sender's own engine
\* under a new version and is as open as it was
Transplanted(sender, engine, version) ==
    IsSome(sender) =>
        /\ watch'[Unwrap(sender)].value = engine
        /\ watch'[Unwrap(sender)].version > version
        /\ sent'[Unwrap(sender)][Len(sent'[Unwrap(sender)])] = engine

\* C27: when a.swap_sender(b) returns, a has the endpoint b had and b the one
\* a had, each endpoint holds the current engine of its new owner under a new
\* version (so the receivers subscribed to it get that engine), the current
\* engine and the generator of both senders are what they were, a later
\* broadcast of a sender goes into the endpoint it has now, no step of the
\* swap closes a channel and no receiver gets end-of-stream
C27_SwapTransplantsEndpoints ==
    /\ [][\A t \in Swappers : SwapReturns(t) =>
            LET a == swaps[t].self
                b == swaps[t].other
                bf == Unwrap(swaps[t].before) IN
              /\ senders'[a].sender = bf.b_sender
              /\ senders'[b].sender = bf.a_sender
              /\ senders'[a].current_engine = bf.a_engine
              /\ senders'[b].current_engine = bf.b_engine
              /\ senders'[a].engine_generator = bf.a_generator
              /\ senders'[b].engine_generator = bf.b_generator
              /\ senders'[a].state = "alive" /\ senders'[b].state = "alive"
              /\ Transplanted(bf.b_sender, bf.a_engine, bf.b_version)
              /\ Transplanted(bf.a_sender, bf.b_engine, bf.a_version)]_vars
    /\ [][\A s \in SenderIds :
            (/\ senders'[s].current_engine /= senders[s].current_engine
             /\ senders'[s].state = "alive"
             /\ IsSome(senders[s].sender))
               => watch'[Unwrap(senders[s].sender)].value = senders'[s].current_engine]_vars
    /\ [][\A c \in ChanIds : watch'[c].closed = watch[c].closed]_vars
    /\ [](\A r \in ReceiverIds :
            \A i \in 1..Len(receivers[r].rets) : receivers[r].rets[i] /= None)

\* sender 1 broadcast engine 1 and swapped endpoints with the second channel's
\* sender; the receiver subscribed to the second channel got engine 1 and
\* then engine 2, which sender 1 broadcast after the swap
C27_Witness ==
    /\ swaps[1].pc = "idle"
    /\ swaps[1].self = 1
    /\ swaps[1].other = Second
    /\ senders[1].sender = Some(Second)
    /\ senders[Second].sender = Some(1)
    /\ senders[1].current_engine = 2
    /\ sent[Second] = << Sentinel, 1, 2 >>
    /\ receivers[Second].chan = Second
    /\ receivers[Second].rets = << Some(1), Some(2) >>

\* C28: a.swap_sender(a) panics at the assertion: no lock is taken, nothing
\* changes, nothing is broadcast, and no call ever waits for a lock it holds
C28_SelfSwapAborts ==
    /\ [][\A t \in Swappers :
            swaps[t].pc = "idle" /\ swaps'[t].pc /= "idle"
            /\ swaps'[t].self = swaps'[t].other
               => /\ swaps'[t].pc = "panicked"
                  /\ senders' = senders
                  /\ watch' = watch
                  /\ sent' = sent]_vars
    /\ [][\A t \in Swappers :
            swaps[t].pc = "panicked" /\ swaps[t].self = swaps[t].other
               => swaps'[t] = swaps[t]]_vars
    /\ [](\A t \in Swappers :
            swaps[t].pc \notin {"idle", "panicked"} => swaps[t].self /= swaps[t].other)

\* sender 1 broadcast an engine and was swapped with itself: the call
\* panicked, the sender is unlocked and sound and has its endpoint
C28_Witness ==
    /\ swaps[1] = [NoSwap EXCEPT !.pc = "panicked", !.self = 1, !.other = 1]
    /\ senders[1].state = "alive"
    /\ senders[1].pc = "idle"
    /\ senders[1].sender = Some(1)
    /\ sent[1] = << Sentinel, 1 >>

(* ----------------- sentinel and sender-drop properties ---------------- *)
\* this step is an invalidate() call of sender s taking the lock: unlike a
\* broadcast of a new engine it constructs none
Invalidates(s) ==
    /\ senders[s].state = "alive"
    /\ senders[s].pc = "idle"
    /\ senders'[s] /= senders[s]
    /\ senders'[s].state /= "dropped"
    /\ engines' = engines

\* C29: a get_engine() call that found the sentinel as the channel's value
\* when it started (after construction or after invalidate()) returns an
\* engine only if that engine was broadcast after the call started and is not
\* exhausted, and returns without one only on a closed channel; invalidate()
\* makes the sentinel both the Sender's current engine and the channel's value
C29_SentinelBlocks ==
    /\ [][\A r \in ReceiverIds :
            LET c == receivers[r].chan IN
              /\ (ReturnsSome(r) /\ sent[c][receivers[r].startPos] = Sentinel)
                    => /\ NewRet(r) /= Sentinel
                       /\ ~is_exhausted(Eng(NewRet(r)))
                       /\ \E i \in (receivers[r].startPos + 1)..Len(sent[c]) :
                             sent[c][i] = NewRet(r)
              /\ (ReturnsNone(r) /\ sent[c][receivers[r].startPos] = Sentinel)
                    => watch[c].closed]_vars
    /\ [][\A s \in SenderIds :
            Invalidates(s)
               => /\ senders'[s].current_engine = Sentinel
                  /\ senders'[s].state = "alive"
                        => LET c == Unwrap(senders[s].sender) IN
                             /\ watch'[c].value = Sentinel
                             /\ sent'[c] = Append(sent[c], Sentinel)]_vars

\* engine 1 was broadcast and obtained, invalidate() put the sentinel back, a
\* get_engine() call started on it, waited, and was woken by the broadcast of
\* engine 2, which it is about to return
C29_Witness ==
    \E r \in Clones :
        /\ sent[1] = << Sentinel, 1, Sentinel, 2 >>
        /\ receivers[r].rets = << Some(1) >>
        /\ receivers[r].pc = "check"
        /\ receivers[r].startPos = 3
        /\ receivers[r].engine = 2
        /\ ~is_exhausted(Eng(2))

\* C30: once the EngineSender is dropped, get_engine() still reads the last
\* value broadcast and returns it as long as it is not exhausted, that engine
\* still yields work, and get_engine() returns None only when the last value
\* broadcast is exhausted
C30_EngineOutlivesSender ==
    [][\A r \in ReceiverIds :
          LET c == receivers[r].chan IN
          (receivers[r].state = "alive" /\ watch[c].closed) =>
            /\ (receivers[r].pc = "idle" /\ receivers'[r].pc = "check")
                  => receivers'[r].engine = sent[c][Len(sent[c])]
            /\ (receivers[r].pc = "check" /\ receivers'[r].pc /= "check"
                /\ ~is_exhausted(Eng(receivers[r].engine)))
                  => ReturnsSome(r) /\ NewRet(r) = receivers[r].engine
            /\ ReturnsNone(r) => is_exhausted(Eng(sent[c][Len(sent[c])]))
            /\ \A e \in EngineIds :
                  (engines'[e] /= engines[e] /\ ~is_exhausted(Eng(e)))
                     => /\ next_work(Eng(e))[2].tag \in {"Break", "Continue"}
                        /\ engines'[e] \in {next_work(Eng(e))[1], terminate(Eng(e))}]_vars

\* the sender was dropped after a receiver had obtained engine 1, work was
\* pulled from that engine, and the receiver's next get_engine() call has
\* read engine 1 again from the closed channel
C30_Witness ==
    \E r \in Clones :
        /\ senders[1].state = "dropped"
        /\ watch[1].closed
        /\ sent[1] = << Sentinel, 1 >>
        /\ receivers[r].rets = << Some(1) >>
        /\ receivers[r].pc = "check"
        /\ receivers[r].engine = 1
        /\ engines[1].kind = "Test"
        /\ engines[1].test_block_iter = 3
        /\ ~is_exhausted(Eng(1))

(* ----------------------- generator presence --------------------------- *)
\* C38: every EngineSender has a generator in every reachable state: the one
\* construction installs builds the exhausted sentinel, a replacement leaves
\* one installed, no call poisons the lock while a receiver is there to
\* broadcast to (the missing-generator abort is never reached), and while no
\* replacement was made the current engine is exhausted
C38_GeneratorAlwaysPresent ==
    /\ [](\A s \in SenderIds :
            senders[s].state \in {"alive", "poisoned"} =>
               /\ senders[s].engine_generator /= None
               /\ Unwrap(senders[s].engine_generator) \in Generators
               /\ replaced[s] = <<>> =>
                     /\ senders[s].engine_generator = Some("default")
                     /\ is_exhausted(Eng(senders[s].current_engine)))
    /\ [][\A s \in SenderIds :
            senders[s].state = "alive" /\ senders'[s].state = "poisoned"
               => /\ IsSome(senders[s].sender)
                  /\ AliveOn(Unwrap(senders[s].sender)) = {}
                  /\ replaced' = replaced]_vars
    /\ [](\A s \in SenderIds : \A i \in 1..Len(replaced[s]) :
            replaced[s][i].returned \in Generators)

\* the default generator was replaced once, after a job had been broadcast
\* with it, and a job was broadcast with the new one: the channel got the
\* sentinel and then a OneWorkEngine, and the sender is sound
C38_Witness ==
    /\ senders[1].state = "alive"
    /\ senders[1].pc = "idle"
    /\ replaced[1] = << [installed |-> "OneWorkEngine", returned |-> "default"] >>
    /\ senders[1].engine_generator = Some("OneWorkEngine")
    /\ sent[1] = << Sentinel, Sentinel, 1 >>
    /\ engines[1].kind = "One"

(* --------------------------- Core lifecycle ---------------------------- *)
\* the position of run() in the order in which a Core passes through it
RunStage(run) == CASE run = "none" -> 0 [] run = "spawn" -> 1
                   [] run = "await" -> 2 [] run = "finished" -> 3

\* C32: the router is taken out of the Core and spawned at most once: the
\* slot is full exactly until the first run() takes it, run() only advances
\* (constructed, spawning, awaiting the job executor, returned), a router task
\* exists only after the one spawn, and a run() that finds the slot empty
\* aborts without touching the router, the spawn count or the first run()
C32_RouterSpawnedOnce ==
    /\ [](/\ core.spawned <= 1
          /\ core.spawned = (IF core.run \in {"await", "finished"} THEN 1 ELSE 0)
          /\ (core.state = "alive" => (IsSome(core.solution_router) <=> core.run = "none"))
          /\ (core.spawned = 0 => router.pc \in {"idle", "dropped"}))
    /\ [][/\ RunStage(core'.run) >= RunStage(core.run)
          /\ (core.solution_router = None /\ core'.run /= core.run
                 => core'.solution_router = None)
          /\ (~core.aborted /\ core'.aborted
                 => /\ core.solution_router = None
                    /\ core.run /= "none"
                    /\ core'.run = core.run
                    /\ core'.spawned = core.spawned
                    /\ router' = router
                    /\ solution_queue' = solution_queue)]_vars

\* a second run() aborted while the first was awaiting the job executor with
\* its router task at work on a Solution
C32_Witness ==
    /\ core.aborted
    /\ core.run = "await"
    /\ core.spawned = 1
    /\ router.pc = "send"

\* C39: while the Core is alive the solution queue has a sender, the Core's
\* own, so the router does not see the end of the stream: it has ended only
\* after the Core was dropped, also when no clone of the sender is left
C39_QueueOpenWhileCoreAlive ==
    /\ [](core.state = "alive" => /\ SolutionSenders >= 1
                                   /\ router.pc /= "done")
    /\ [][router.pc /= "done" /\ router'.pc = "done"
             => /\ core.state = "dropped"
                /\ solution_queue.clones = 0
                /\ solution_queue.items = <<>>]_vars

\* every clone of the sender was dropped after Solutions were pushed through
\* them, the router has drained the queue and waits, the Core being alive
C39_Witness ==
    /\ core.state = "alive"
    /\ solution_queue.clones = 0
    /\ solution_queue.sent = 2
    /\ solution_queue.items = <<>>
    /\ Len(router.received) = 2
    /\ router.pc = "recv"

(* ------------------------- Sender operations -------------------------- *)
\* the Sender of engine_channel() and a Sender without an endpoint under the
\* three broadcasts and the generator's replacement, with the receivers of
\* the channel coming and going
NextSender ==
    \/ EngineSender_new
    \/ \E n \in Clones : CloneReceiver(CoreReceiver, n)
    \/ \E s \in SenderIds, e \in EngineIds, eng \in SwapEngines : broadcast_engine(s, e, eng)
    \/ \E s \in SenderIds : broadcast_job(s, 1)
    \/ \E s \in SenderIds : invalidate(s)
    \/ \E s \in SenderIds : replace_engine_generator(s, "OneWorkEngine")
    \/ \E s \in SenderIds : WatchNotify(s)
    \/ \E r \in Clones : GetEngineBorrow(r)
    \/ \E r \in Clones : GetEngineCheck(r)
    \/ \E r \in Clones : GetEngineNext(r)
    \/ \E r \in ReceiverIds : DropReceiver(r)

SpecSender == Init /\ [][NextSender]_vars

\* this step is a broadcast_engine, broadcast_job or invalidate call of
\* sender s taking the lock: the engine the Sender records afterwards is the
\* call's, the sentinel or an engine constructed in this step
Broadcasts(s) ==
    /\ senders[s].state = "alive"
    /\ senders[s].pc = "idle"
    /\ replaced' = replaced
    /\ senders'[s] /= senders[s]

\* the engine a broadcasting step records: the sentinel, or the engine the
\* step has constructed
Recorded(e) == e = Sentinel \/ (engines[e].kind = "none" /\ engines'[e].kind /= "none")

\* C40 as stated: a broadcast of a Sender completes normally, with or without
\* an endpoint and whether or not a receiver of its channel is alive
C40_BroadcastNeverFails ==
    [][\A s \in SenderIds :
         Broadcasts(s) => /\ senders'[s].state = "alive"
                          /\ Recorded(senders'[s].current_engine)]_vars

\* C40, what the code does: a broadcast on a Sender without an endpoint
\* records the engine and touches no channel; on a connected Sender it records
\* the engine and puts it into the channel while a receiver of the channel is
\* alive, and aborts with the Sender's lock held, nothing broadcast, once
\* none is
C40_BroadcastNeedsReceiver ==
    [][/\ \A e \in EngineIds :
            engines[e].kind = "none" /\ engines'[e].kind /= "none"
               => \E s \in SenderIds : Broadcasts(s) /\ senders'[s].current_engine = e
       /\ \A s \in SenderIds :
         Broadcasts(s) =>
            /\ Recorded(senders'[s].current_engine)
            /\ IF senders[s].sender = None
               THEN /\ senders'[s].state = "alive"
                    /\ senders'[s].pc = "idle"
                    /\ watch' = watch
                    /\ sent' = sent
               ELSE LET c == Unwrap(senders[s].sender) IN
                    IF AliveOn(c) = {}
                    THEN /\ senders'[s].state = "poisoned"
                         /\ watch' = watch
                         /\ sent' = sent
                    ELSE /\ senders'[s].state = "alive"
                         /\ senders'[s].pc = "notify"
                         /\ watch'[c].value = senders'[s].current_engine
                         /\ sent'[c] = Append(sent[c], senders'[s].current_engine)]_vars

\* the Sender without an endpoint has recorded a broadcast engine, and the
\* connected Sender, its receivers gone after a completed broadcast, was
\* poisoned by the next one
C40_Witness ==
    /\ senders[Second].state = "alive"
    /\ senders[Second].sender = None
    /\ senders[Second].current_engine = 2
    /\ AliveOn(1) = {}
    /\ sent[1] = << Sentinel, 1 >>
    /\ senders[1].state = "poisoned"
    /\ senders[1].current_engine = Sentinel

(* ----------------------- endpoint coherence --------------------------- *)
\* the swap specification with the two broadcasts it leaves out
NextCoherence ==
    \/ NextSwap
    \/ \E s \in SenderIds : invalidate(s)
    \/ \E s \in SenderIds : broadcast_job(s, 1)

SpecCoherence == Init /\ [][NextCoherence]_vars

\* the engines installed into the endpoints so far, the initial sentinel of
\* each channel included
InstalledEngines == UNION {Range(sent[c]) : c \in ChanIds}

\* C37: whenever no operation holds the lock of a sound Sender, the endpoint
\* the Sender owns holds the Sender's current engine; no endpoint is owned by
\* two Senders; a value enters an endpoint only as the current engine of the
\* Sender that owns it; and every engine a receiver obtained is the initial
\* sentinel or one so installed
C37_EndpointFollowsOwner ==
    /\ [](\A s \in SenderIds :
            (/\ senders[s].state = "alive"
             /\ senders[s].pc = "idle"
             /\ IsSome(senders[s].sender))
               => watch[Unwrap(senders[s].sender)].value = senders[s].current_engine)
    /\ [](\A s, o \in SenderIds :
            (/\ s /= o
             /\ senders[s].state /= "none"
             /\ senders[o].state /= "none"
             /\ IsSome(senders[s].sender))
               => senders[s].sender /= senders[o].sender)
    /\ [][\A c \in ChanIds :
            sent'[c] /= sent[c] =>
               \E s \in SenderIds :
                  /\ senders'[s].sender = Some(c)
                  /\ watch'[c].value = senders'[s].current_engine
                  /\ sent'[c] = Append(sent[c], senders'[s].current_engine)]_vars
    /\ [](\A r \in ReceiverIds : \A i \in 1..Len(receivers[r].rets) :
            IsSome(receivers[r].rets[i])
               => Unwrap(receivers[r].rets[i]) \in InstalledEngines)

\* sender 1 broadcast engine 1, the senders were swapped, and the second
\* sender, now the owner of the first channel, invalidated: the first
\* channel holds the sentinel, the second engine 1, which its receiver got
C37_Witness ==
    /\ swaps[1].pc = "idle"
    /\ senders[1].pc = "idle" /\ senders[Second].pc = "idle"
    /\ senders[1].state = "alive" /\ senders[Second].state = "alive"
    /\ senders[1].sender = Some(Second)
    /\ senders[Second].sender = Some(1)
    /\ sent[1] = << Sentinel, 1, Sentinel, Sentinel >>
    /\ sent[Second] = << Sentinel, 1 >>
    /\ watch[1].value = Sentinel
    /\ watch[Second].value = 1
    /\ receivers[Second].rets = << Some(1) >>

(* -------------------------- concurrent swaps -------------------------- *)
\* two threads that call swap_sender on the Senders of two channels, in
\* either direction, while engines are broadcast
NextRace ==
    \/ engine_channel_second
    \/ \E s \in SenderIds, e \in EngineIds, eng \in SwapEngines : broadcast_engine(s, e, eng)
    \/ \E s \in SenderIds : WatchNotify(s)
    \/ \E t \in Racers, a, b \in SenderIds : swap_sender(t, a, b)
    \/ \E t \in Racers : swap_sender_lock_self(t)
    \/ \E t \in Racers : swap_sender_swap(t)
    \/ \E t \in Racers : swap_sender_re_broadcast(t)
    \/ \E t \in Racers : swap_sender_return(t)

SpecRace == Init /\ [][NextRace]_vars

\* thread t holds the lock of its `self` and waits in other.lock_inner() for
\* a lock that thread u holds
WaitsFor(t, u) ==
    /\ t /= u
    /\ swaps[t].pc = "lock_other"
    /\ swaps[u].pc \in {"lock_other", "a_notify", "b_notify"}
    /\ swaps[t].other \in {swaps[u].self} \cup
          (IF swaps[u].pc = "lock_other" THEN {} ELSE {swaps[u].other})

\* C36 as stated: two swap_sender calls never wait for each other: whenever
\* a call waits for a lock, the call holding that lock is not waiting for a
\* lock of the first
C36_OppositeSwapsComplete ==
    \A t, u \in Racers : ~(WaitsFor(t, u) /\ WaitsFor(u, t))

\* what the code does: a.swap_sender(b) and b.swap_sender(a) each took the
\* lock of its own `self` and wait for the other's for ever
C36_Deadlocked ==
    /\ swaps[1].pc = "lock_other" /\ swaps[2].pc = "lock_other"
    /\ swaps[1].self = swaps[2].other
    /\ swaps[1].other = swaps[2].self
    /\ senders[1].pc = "swap" /\ senders[2].pc = "swap"
    /\ \A t \in Racers : ~ENABLED swap_sender_swap(t)

(* ---------------------- work from a shared engine --------------------- *)
\* the next_work() calls receiver r's holder has made on engine e after the
\* get_engine() return with index n
PullsOf(r, e, n) ==
    {i \in 1..Len(calls[e]) : calls[e][i].by = r /\ calls[e][i].ret = n}

\* the holder of receiver r has called next_work() on the engine its latest
\* get_engine() returned (or has no engine yet)
Pulled(r) ==
    IF LastRet(r) = None THEN TRUE
    ELSE PullsOf(r, Unwrap(LastRet(r)), Len(receivers[r].rets)) /= {}

\* variant of the pull that calls next_work() twice and keeps the second result
Receiver_next_work_twice(r) ==
    /\ receivers[r].state = "alive"
    /\ receivers[r].pc = "idle"
    /\ ~Pulled(r)
    /\ LET e == Unwrap(LastRet(r))
           res == next_work(next_work(engines[e])[1]) IN
         /\ Len(calls[e]) < MaxCalls
         /\ engines' = [engines EXCEPT ![e] = res[1]]
         /\ calls' = [calls EXCEPT ![e] =
                         Append(@, [by |-> r, op |-> "next_work", res |-> res[2],
                                    ret |-> Len(receivers[r].rets)])]
    /\ UNCHANGED << chanVars, outsideWork >>

\* the caller of get_engine() calls next_work() on the engine it got, once:
\* `get_engine(&mut work_receiver)` and then `test_engine.next_work()`
Receiver_next_work(r) ==
    /\ receivers[r].state = "alive"
    /\ receivers[r].pc = "idle"
    /\ ~Pulled(r)
    /\ LET e == Unwrap(LastRet(r))
           res == next_work(engines[e]) IN
         /\ Len(calls[e]) < MaxCalls
         /\ engines' = [engines EXCEPT ![e] = res[1]]
         /\ calls' = [calls EXCEPT ![e] =
                         Append(@, [by |-> r, op |-> "next_work", res |-> res[2],
                                    ret |-> Len(receivers[r].rets)])]
    /\ UNCHANGED << chanVars, outsideWork >>

\* the caller's next get_engine() call, made after it has used the engine
Receiver_get_engine(r) == Pulled(r) /\ GetEngineBorrow(r)

\* the receivers of one channel, each held by a caller that alternates
\* get_engine() and next_work(), while engines are broadcast
NextPull ==
    \/ \E e \in EngineIds, eng \in NewEngines : broadcast_engine(1, e, eng)
    \/ WatchNotify(1)
    \/ \E n \in Clones : CloneReceiver(CoreReceiver, n)
    \/ \E r \in ReceiverIds : Receiver_get_engine(r)
    \/ \E r \in ReceiverIds : GetEngineCheck(r)
    \/ \E r \in ReceiverIds : GetEngineNext(r)
    \/ \E r \in ReceiverIds : Receiver_next_work(r)

SpecPull == Init /\ [][NextPull]_vars

SolutionState_new(p) == [solved |-> FALSE, problem |-> p]

\* a call on the Registry as it is recorded: the operation, the key of its
\* argument and what it returned
RegistryCall(op, key, res) == [op |-> op, key |-> key, res |-> res]

\* variant of add_problem that inserts over a stored problem and returns
\* whether there was none
Registry_add_problem_overwrite(key) ==
    /\ Len(ops) < MaxOps
    /\ map' = [map EXCEPT ![key] = Some(SolutionState_new(key))]
    /\ ops' = Append(ops, RegistryCall("add_problem", key, ~IsSome(map[key])))
    /\ UNCHANGED << harness, reschedule, outsideMining >>

\* Registry::add_problem(problem) for the problem with SolutionKey key: false
\* and nothing else when the key is in the map, else the insertion and true
Registry_add_problem(key) ==
    /\ Len(ops) < MaxOps
    /\ IF IsSome(map[key])
       THEN /\ ops' = Append(ops, RegistryCall("add_problem", key, FALSE))
            /\ UNCHANGED map
       ELSE /\ map' = [map EXCEPT ![key] = Some(SolutionState_new(key))]
            /\ ops' = Append(ops, RegistryCall("add_problem", key, TRUE))
    /\ UNCHANGED << harness, reschedule, outsideMining >>

\* Registry::add_solution(solution) for the solution with SolutionKey key:
\* the stored state becomes solved; a warning when nothing is stored
Registry_add_solution(key) ==
    /\ Len(ops) < MaxOps
    /\ IF IsSome(map[key])
       THEN map' = [map EXCEPT ![key] = Some([Unwrap(@) EXCEPT !.solved = TRUE])]
       ELSE UNCHANGED map
    /\ ops' = Append(ops, RegistryCall("add_solution", key, Unit))
    /\ UNCHANGED << harness, reschedule, outsideMining >>

\* the loop of check_everything_solved over the entries left to visit
RECURSIVE everything_solved(_, _)
everything_solved(left, acc) ==
    IF left = {} THEN acc
    ELSE LET k == CHOOSE x \in left : TRUE IN
         everything_solved(left \ {k},
                           IF ~Unwrap(map[k]).solved THEN FALSE ELSE acc)

\* Registry::check_everything_solved(print_missing_solutions)
Registry_check_everything_solved ==
    /\ Len(ops) < MaxOps
    /\ ops' = Append(ops, RegistryCall("check_everything_solved", None,
                             everything_solved({k \in SolutionKeys : IsSome(map[k])}, TRUE)))
    /\ UNCHANGED << map, harness, reschedule, outsideMining >>

NextRegistry ==
    \/ \E key \in SolutionKeys : Registry_add_problem(key)
    \/ \E key \in SolutionKeys : Registry_add_solution(key)
    \/ Registry_check_everything_solved

SpecRegistry == Init /\ [][NextRegistry]_vars

\* the calls before the i-th that added a problem with this key
AddedBefore(i, key) ==
    {j \in 1..(i - 1) : ops[j].op = "add_problem" /\ ops[j].key = key}

\* a solution with this key was added before the i-th call and after the
\* problem with this key was
SolvedBefore(i, key) ==
    \E j \in 1..(i - 1) : /\ ops[j].op = "add_solution"
                          /\ ops[j].key = key
                          /\ AddedBefore(j, key) /= {}

\* C33: add_problem returns true exactly when no problem with the same key
\* was added before, and a call that returns false changes nothing; a solved
\* problem stays solved and no stored problem is removed; and
\* check_everything_solved returns true exactly when every problem added so
\* far has since been given a solution with its own key
C33_RegistryPairsMonotonically ==
    /\ [](\A i \in 1..Len(ops) :
            /\ ops[i].op = "add_problem" => (ops[i].res <=> AddedBefore(i, ops[i].key) = {})
            /\ ops[i].op = "check_everything_solved" =>
                  (ops[i].res <=> \A key \in SolutionKeys :
                                     AddedBefore(i, key) /= {} => SolvedBefore(i, key)))
    /\ [][(Len(ops') > Len(ops) /\ ops'[Len(ops')].op = "add_problem"
              /\ ~ops'[Len(ops')].res) => map' = map]_vars
    /\ [][\A key \in SolutionKeys :
            IsSome(map[key]) => /\ IsSome(map'[key])
                                /\ Unwrap(map[key]).solved => Unwrap(map'[key]).solved]_vars

\* the first half of test_registry: a problem added twice, solved, and added
\* once more, which left it solved: everything is solved before and after
C33_Witness ==
    LET key == [hash |-> 1, midstate_idx |-> 1] IN
    /\ ops = << RegistryCall("add_problem", key, TRUE),
                RegistryCall("add_solution", key, Unit),
                RegistryCall("check_everything_solved", None, TRUE),
                RegistryCall("add_problem", key, FALSE),
                RegistryCall("check_everything_solved", None, TRUE) >>
    /\ map[key] = Some([solved |-> TRUE, problem |-> key])

(* ------------------------- block_mining::run -------------------------- *)
\* the midstate counts of a backend configuration for which the engines of
\* one run fit the engine slots
MidstateCounts == {mc \in 1..MaxMidstates : 1 + mc * MaxBlocks <= MaxEngines}

\* the problems of one run, in the order of the two loops:
\* `for target_midstate in 0..midstate_count`, `for test_block in TEST_BLOCKS`
ProblemCount == harness.midstate_count * MaxBlocks
ProblemAt(k) == [hash |-> ((k - 1) % MaxBlocks) + 1, midstate_idx |-> (k - 1) \div MaxBlocks]

\* Problem::into_work(midstate_count) of the problem with this key
Problem_work(key, midstate_count) ==
    Assignment_new(
        key.hash,
        [i \in 1..midstate_count |->
            LET version == MidstateVersion(TestBlock_version(key.hash), i - 1,
                                           key.midstate_idx) IN
              [version |-> version, state |-> << "midstate", key.hash, version >>]],
        << "time", key.hash >>)

\* `engine_sender.broadcast_engine(Arc::new(OneWorkEngine::new(
\* problem.into_work(midstate_count))))`, up to the replacement of the value
Harness_broadcast(key) ==
    /\ CanBroadcast(1)
    /\ FreeSlots /= {}
    /\ engines' = [engines EXCEPT
                      ![NextSlot] = OneWorkEngine_new(Problem_work(key, harness.midstate_count))]
    /\ re_broadcast(1, [senders[1] EXCEPT !.current_engine = NextSlot])

\* run(): the configuration is read and build_solvers() has made the channels
run_build_solvers(midstate_count) ==
    /\ harness.pc = "none"
    /\ harness' = [harness EXCEPT !.pc = "first", !.midstate_count = midstate_count]
    /\ UNCHANGED << map, ops, reschedule, outsideMining >>

\* run(): the first engine, for TEST_BLOCKS[0] and target midstate 0, which
\* goes out before any problem is registered
run_broadcast_first ==
    /\ harness.pc = "first"
    /\ Harness_broadcast(ProblemAt(1))
    /\ harness' = [harness EXCEPT !.pc = "add", !.next = 1]
    /\ UNCHANGED << calls, receivers, map, ops, reschedule, routerVars, backendVars,
                    callVars, model_solution, job, readers, problem, pipeline >>

\* run(): `registry.lock().await.add_problem(problem.clone())` of the next
\* problem and the panic on a duplicate; after the last problem the loops end
run_add_problem ==
    /\ harness.pc = "add"
    /\ senders[1].pc = "idle"
    /\ IF harness.next > ProblemCount
       THEN /\ harness' = [harness EXCEPT !.pc = "done"]
            /\ UNCHANGED << map, ops >>
       ELSE LET key == ProblemAt(harness.next) IN
            /\ Len(ops) < MaxOps
            /\ IF IsSome(map[key])
               THEN /\ ops' = Append(ops, RegistryCall("add_problem", key, FALSE))
                    /\ harness' = [harness EXCEPT !.pc = "panicked"]
                    /\ UNCHANGED map
               ELSE /\ map' = [map EXCEPT ![key] = Some(SolutionState_new(key))]
                    /\ ops' = Append(ops, RegistryCall("add_problem", key, TRUE))
                    /\ harness' = [harness EXCEPT !.pc = "wait"]
    /\ UNCHANGED << reschedule, outsideMining >>

\* variant of the wait that goes on without a notification
run_reschedule_next_skip ==
    /\ harness.pc = "wait"
    /\ reschedule' = IF reschedule = <<>> THEN reschedule ELSE Tail(reschedule)
    /\ harness' = [harness EXCEPT !.pc = "broadcast"]
    /\ UNCHANGED << map, ops, outsideMining >>

\* run(): `reschedule_receiver.next().await`: suspended until an exhausted
\* engine is in the queue (its sender lives in the receivers' handler)
run_reschedule_next ==
    /\ harness.pc = "wait"
    /\ reschedule /= <<>>
    /\ reschedule' = Tail(reschedule)
    /\ harness' = [harness EXCEPT !.pc = "broadcast"]
    /\ UNCHANGED << map, ops, outsideMining >>

\* run(): the engine of the problem just registered is broadcast
run_broadcast ==
    /\ harness.pc = "broadcast"
    /\ Harness_broadcast(ProblemAt(harness.next))
    /\ harness' = [harness EXCEPT !.pc = "add", !.next = @ + 1]
    /\ UNCHANGED << calls, receivers, map, ops, reschedule, routerVars, backendVars,
                    callVars, model_solution, job, readers, problem, pipeline >>

\* the hardware's work generator: next_work() on the engine get_engine()
\* returned; when that was the engine's last work (Break) the receiver's
\* handle_exhausted(engine) is due
Generator_next_work(r) ==
    /\ receivers[r].state = "alive"
    /\ receivers[r].pc = "idle"
    /\ ~Pulled(r)
    /\ LET e == Unwrap(LastRet(r))
           res == next_work(engines[e]) IN
         /\ Len(calls[e]) < MaxCalls
         /\ engines' = [engines EXCEPT ![e] = res[1]]
         /\ calls' = [calls EXCEPT ![e] =
                         Append(@, [by |-> r, op |-> "next_work", res |-> res[2],
                                    ret |-> Len(receivers[r].rets)])]
         /\ receivers' = [receivers EXCEPT ![r].pc =
                             IF res[2].tag = "Break" THEN "exhausted" ELSE "idle"]
    /\ UNCHANGED << senders, watch, sent, outsideWork >>

\* EngineReceiver::handle_exhausted(engine) with the ExhaustedWorkHandler:
\* `self.reschedule_sender.unbounded_send(engine)`
handle_exhausted(r) ==
    /\ receivers[r].state = "alive"
    /\ receivers[r].pc = "exhausted"
    /\ reschedule' = Append(reschedule, Unwrap(LastRet(r)))
    /\ receivers' = [receivers EXCEPT ![r].pc = "idle"]
    /\ UNCHANGED << engineVars, senders, watch, sent, map, ops, harness,
                    routerVars, backendVars, callVars,
                    model_solution, job, readers, problem, pipeline >>

NextMining ==
    \/ \E mc \in MidstateCounts : run_build_solvers(mc)
    \/ run_broadcast_first
    \/ run_add_problem
    \/ run_reschedule_next
    \/ run_broadcast
    \/ WatchNotify(1)
    \/ \E n \in Clones : CloneReceiver(CoreReceiver, n)
    \/ \E r \in ReceiverIds : Receiver_get_engine(r)
    \/ \E r \in ReceiverIds : GetEngineCheck(r)
    \/ \E r \in ReceiverIds : GetEngineNext(r)
    \/ \E r \in ReceiverIds : Generator_next_work(r)
    \/ \E r \in ReceiverIds : handle_exhausted(r)

SpecMining == Init /\ [][NextMining]_vars

\* the harness runs on, a started broadcast completes, and the hardware
\* behind the first receiver keeps asking for work
SpecMiningLive ==
    /\ Init
    /\ [][NextMining]_vars
    /\ WF_vars(run_broadcast_first) /\ WF_vars(run_add_problem)
    /\ WF_vars(run_reschedule_next) /\ WF_vars(run_broadcast)
    /\ WF_vars(WatchNotify(1))
    /\ \A r \in ReceiverIds :
          /\ WF_vars(Receiver_get_engine(r)) /\ WF_vars(GetEngineCheck(r))
          /\ WF_vars(GetEngineNext(r)) /\ WF_vars(Generator_next_work(r))
          /\ WF_vars(handle_exhausted(r))

\* the single assignment of engine e has been taken by a next_work() call
Taken(e) == \E i \in 1..Len(calls[e]) : calls[e][i].res.tag = "Break"

\* the engines broadcast so far (the channel's initial sentinel left out)
Broadcast == Len(sent[1]) - 1

\* C35: an engine is broadcast only when the engine it supersedes has had
\* its assignment taken, and, after the first one, only after the problem it
\* is made of was registered and an exhausted-engine notification received;
\* the problems are registered without a duplicate; when the loops have ended
\* 1 + midstate_count * |TEST_BLOCKS| engines have been broadcast; and every
\* run ends that way with the work of every engine handed out
C35_HandshakePacesBroadcasts ==
    /\ [][sent'[1] /= sent[1] =>
            /\ watch[1].value /= Sentinel =>
                  Taken(watch[1].value) /\ is_exhausted(engines[watch[1].value])
            /\ Broadcast >= 1 =>
                  /\ harness.pc = "broadcast"
                  /\ IsSome(map[ProblemAt(harness.next)])
                  /\ Broadcast = harness.next]_vars
    /\ [][reschedule' /= reschedule /\ Len(reschedule') > Len(reschedule)
             => Taken(reschedule'[Len(reschedule')])]_vars
    /\ [](harness.pc /= "panicked")
    /\ [](Broadcast <= 1 + ProblemCount)
    /\ [](harness.pc = "done" =>
             /\ Broadcast = 1 + harness.midstate_count * MaxBlocks
             /\ \A k \in 1..ProblemCount : IsSome(map[ProblemAt(k)]))
    /\ (harness.pc = "first") ~>
          (/\ harness.pc = "done"
           /\ \A e \in 1..(1 + ProblemCount) : Taken(e))

\* the run has ended: three engines were broadcast for the two problems, one
\* after the other, and the clone of the receiver took the work of the second
C35_Witness ==
    /\ harness.pc = "done"
    /\ harness.midstate_count = 1
    /\ sent[1] = << Sentinel, 1, 2, 3 >>
    /\ Len(ops) = 2
    /\ \A e \in 1..3 : Taken(e)
    /\ calls[2][1].by = 2
    /\ calls[1][1].by = CoreReceiver

(* ------------------ job solver and work solver, connected -------------- *)
\* the jobs the pool may send: one per test block
PipelineJobs == 1..MaxBlocks

\* what the steps of the connected solvers that only touch the Solutions'
\* way leave alone
outsidePipeline == << map, ops, harness, reschedule, workVars, routerVars, backendVars,
                      callVars, model_solution, job, readers, problem >>

\* build_solvers() of the hub tests: the version-rolling generator is
\* installed on the new channel's Sender before anything is sent
test_build_solvers ==
    /\ replaced[1] = <<>>
    /\ pipeline.jobs = <<>>
    /\ replace_engine_generator(1, "VersionRolling")

\* `job_solver.job_sender.send(job)`: the job goes to
\* EngineSender::broadcast_job, which calls the generator and broadcasts the
\* engine it made, up to the replacement of the value
JobSender_send(k) ==
    /\ CanBroadcast(1)
    /\ senders[1].engine_generator = Some("VersionRolling")
    /\ FreeSlots /= {}
    /\ engines' = [engines EXCEPT
                      ![NextSlot] = EngineGenerator_call(Unwrap(senders[1].engine_generator), k)]
    /\ re_broadcast(1, [senders[1] EXCEPT !.current_engine = NextSlot])
    /\ pipeline' = [pipeline EXCEPT !.jobs = Append(@, k)]
    /\ UNCHANGED << calls, receivers, map, ops, harness, reschedule, routerVars,
                    backendVars, callVars, model_solution, job, readers, problem >>

\* the works receiver r's holder was given that no Solution has answered yet
Unanswered(r) ==
    {w \in EngineIds \X (1..MaxCalls) :
        /\ w[2] <= Len(calls[w[1]])
        /\ calls[w[1]][w[2]].by = r
        /\ calls[w[1]][w[2]].res.tag /= "Exhausted"
        /\ \A i \in 1..Len(pipeline.pushed) : pipeline.pushed[i].of /= w}

\* the work next_work() call w gave
WorkOf(w) == Unwrap(calls[w[1]][w[2]].res.val)

\* `solution_sender.send(block.into())`: the hardware behind receiver r
\* answers work w with the test block's known nonce; the Solution goes into
\* the unbounded queue between the two solvers
SolutionSender_send(r, w) ==
    /\ w \in Unanswered(r)
    /\ LET solution == Solution_new(WorkOf(w), TestSolution_new(WorkOf(w).job)) IN
         pipeline' = [pipeline EXCEPT
                         !.pushed = Append(@, [of |-> w, solution |-> solution]),
                         !.queue = Append(@, solution)]
    /\ UNCHANGED outsidePipeline

\* variant of receive() that hands out the newest queued Solution
SolutionReceiver_receive_newest ==
    /\ pipeline.queue /= <<>>
    /\ pipeline' = [pipeline EXCEPT
                       !.received = Append(@, pipeline.queue[Len(pipeline.queue)]),
                       !.queue = SubSeq(@, 1, Len(@) - 1)]
    /\ UNCHANGED outsidePipeline

\* `job_solver.solution_receiver.receive().await`: the oldest queued Solution
SolutionReceiver_receive ==
    /\ pipeline.queue /= <<>>
    /\ pipeline' = [pipeline EXCEPT !.received = Append(@, Head(pipeline.queue)),
                                    !.queue = Tail(@)]
    /\ UNCHANGED outsidePipeline

\* the pool sends jobs while the hardware generates work, answers it, and the
\* job solver receives the Solutions
NextPipeline ==
    \/ test_build_solvers
    \/ \E k \in PipelineJobs : JobSender_send(k)
    \/ WatchNotify(1)
    \/ Receiver_get_engine(CoreReceiver)
    \/ GetEngineCheck(CoreReceiver)
    \/ GetEngineNext(CoreReceiver)
    \/ Receiver_next_work(CoreReceiver)
    \/ \E w \in EngineIds \X (1..MaxCalls) : SolutionSender_send(CoreReceiver, w)
    \/ SolutionReceiver_receive

SpecPipeline == Init /\ [][NextPipeline]_vars

\* the job the e-th engine was made for
JobOf(e) == pipeline.jobs[e]

\* the next_work() calls on engine e that gave work
GaveWork(e) == {i \in 1..Len(calls[e]) : calls[e][i].res.tag /= "Exhausted"}

\* C31: end to end, every job sent becomes the engine the generator offers
\* next: a get_engine() call returns the engine of the job that was the
\* latest when the call started, or of a later one, never of an older one,
\* so with no send in between it is the engine of the job just sent; every
\* work of that engine is derived from that job and the first one carries
\* the job's own midstate; every Solution pushed for a work comes out of the
\* job solver's receiver unchanged, same nonce and same job, one for one and
\* in the order of the pushes
C31_PipelineEndToEnd ==
    /\ [](\A e \in EngineIds :
             engines[e].kind /= "none" =>
                /\ e <= Len(pipeline.jobs)
                /\ engines[e] \in {[VersionRolling_new(JobOf(e)) EXCEPT !.test_block_iter = n] :
                                      n \in 0..MaxRolls}
                /\ \A i \in GaveWork(e) :
                      /\ Unwrap(calls[e][i].res.val).job = JobOf(e)
                      /\ (\A j \in GaveWork(e) : i <= j) =>
                            Unwrap(calls[e][i].res.val).midstates =
                               AssignmentFromTestBlock(JobOf(e)).midstates)
    /\ [][\A r \in ReceiverIds :
             (Len(receivers'[r].rets) > Len(receivers[r].rets)) =>
                /\ LastRet(r)' /= None
                /\ Unwrap(LastRet(r)') >= receivers[r].startPos - 1
                /\ Unwrap(LastRet(r)') <= Len(pipeline.jobs)
                /\ Unwrap(LastRet(r)') /= Sentinel]_vars
    /\ [](/\ pipeline.received \o pipeline.queue =
               [i \in 1..Len(pipeline.pushed) |-> pipeline.pushed[i].solution]
          /\ \A i \in 1..Len(pipeline.pushed) :
                LET sol == pipeline.pushed[i].solution
                    w == pipeline.pushed[i].of IN
                  /\ Unwrap(sol.solution).nonce = << "nonce", JobOf(w[1]) >>
                  /\ Unwrap(sol.work).job = JobOf(w[1])
                  /\ Unwrap(sol.work) = WorkOf(w))

\* two different jobs were sent one after the other; the generator gave the
\* work of the first and then, after the second send, the work of the second;
\* both Solutions were pushed and both were received, in that order
C31_Witness ==
    /\ pipeline.jobs = << 2, 1 >>
    /\ receivers[CoreReceiver].rets = << Some(1), Some(2) >>
    /\ Len(pipeline.received) = 2
    /\ pipeline.queue = <<>>
    /\ Unwrap(pipeline.received[1].work).job = 2
    /\ Unwrap(pipeline.received[2].work).job = 1
    /\ Unwrap(pipeline.received[2].work).midstates[1].state = << "midstate", 1 >>
    /\ Unwrap(pipeline.received[2].solution).nonce = << "nonce", 1 >>

====
